---- MODULE Spec2Model ----
(***************************************************************************)
(* A model of skoll's validation-and-dispatch pipeline: the Result algebra *)
(* (result.py), the schema construction engine (domain/base.py), the       *)
(* dependency resolution engine (utils/dep_injection.py) and the NATS      *)
(* dispatch wrapper (nats.py).                                             *)
(***************************************************************************)
EXTENDS Integers, Sequences, FiniteSets, TLC

VARIABLES
    results,        \* the argument handed to combine: [form, items]
    combined,       \* what combine returned for it, or NotRun
    create_cls,     \* the class Object.create is called on
    create_raw,     \* the raw input handed to it
    field_results,  \* the per-field results Object.create collected
    created         \* what Object.create returned (or raised), or NotRun

VARIABLES
    pc,             \* where the call_with_dependencies call stands
    handler,        \* the callable being called: [sig]
    context,        \* the context mapping handed to the call
    frames,         \* the active resolve() calls: [fn, idx, kwargs], innermost last
    cache,          \* the call's cache: provider -> value
    exit_stack,     \* the call's AsyncExitStack: scoped providers, in entry order
    calls,          \* how many times each provider was invoked
    bound,          \* the kwargs each invoked callable received
    acquired,       \* scoped resources in the order they were entered
    released,       \* scoped resources in the order they were exited
    retval,         \* what the handler returned, or NotRun
    pending,        \* the exception travelling out of the call, or NoExc
    outcome         \* how call_with_dependencies ended, or NotRun

VARIABLES
    subscriber,     \* the Subscriber the callback was wrapped for
    wpc,            \* where the wrapped callback stands
    delivered,      \* the bytes of the delivery handed to it
    raw_msg,        \* what json.loads made of them
    result,         \* what run_callback returned
    responded,      \* the envelopes handed to msg.respond
    acked,          \* how many times msg.ack was awaited
    naked,          \* the delays msg.nak was awaited with
    printed         \* the errors the callback printed

VARIABLES
    match_pattern,  \* the subscriber topic handed to is_subscribed
    match_message,  \* the raw message handed to it
    matched         \* what it returned, or NotRun

VARIABLES
    service_subscribers,    \* Service.subscribers, in registration order
    registration            \* the last decorator applied: its arguments and outcome

VARIABLES
    eq_left,        \* the Message on the left of ==
    eq_right,       \* the Message on the right of ==
    eq_result,      \* what eq_left == eq_right gave, or NotRun
    eq_swapped      \* what eq_right == eq_left gave, or NotRun

VARIABLES
    req_pc,         \* where NatsMediator.request stands
    req_msg,        \* the message handed to it
    req_response,   \* what nc.request gave: a reply's bytes or an exception
    req_result      \* what request returned, or NotRun

VARIABLES
    tasks,          \* the call_with_dependencies calls in progress, one per delivery
    invocations     \* every provider invocation so far, in order: [fn, task]

VARIABLES
    scope_pc,       \* where the scope holding the generator providers stands
    gens,           \* the async generators of the scope: [shape, state, yielded, cleanups]
    scope_stack,    \* the generators entered through the exit stack, in entry order
    scope_exc       \* the exception in flight in the scope, or NoExc

VARIABLES
    nc_connected,   \* nc.is_connected
    nc_active,      \* the transport subscriptions created and not unsubscribed
    nc_created,     \* how many transport subscriptions were ever created
    subscriptions,  \* NatsMediator.subscriptions: id -> the subscriptions recorded
    sub_ids,        \* how many ids ID.new() has given to subscribe
    med_outcome     \* how the last subscribe / unsubscribe call ended

VARIABLES
    pg_table,       \* the rows of the repository's table: id -> version stored
    held,           \* the entity state each task holds: [id, version], or Null
    save_outcome,   \* how each task's last save ended
    repo_last       \* the repository step taken last: [task, op]

VARIABLES
    jwt_now,        \* the clock, in minutes
    jwt_token,      \* the token at hand: [key, exp, iss, claims], or Null
    jwt_kind,       \* the kind handed to decode with it
    decoded         \* the DecodedJwtToken decode returned, or NotRun

combineVars == <<results, combined>>
createVars == <<create_cls, create_raw, field_results, created>>
depVars ==
    <<pc, handler, context, frames, cache, exit_stack, calls, bound, acquired,
      released, retval, pending, outcome>>
dispatchVars ==
    <<subscriber, wpc, delivered, raw_msg, result, responded, acked, naked, printed>>
matchVars == <<match_pattern, match_message, matched>>
registerVars == <<service_subscribers, registration>>
equalityVars == <<eq_left, eq_right, eq_result, eq_swapped>>
requestVars == <<req_pc, req_msg, req_response, req_result>>
concurrentVars == <<tasks, invocations>>
scopeVars == <<scope_pc, gens, scope_stack, scope_exc>>
repoVars == <<pg_table, held, save_outcome, repo_last>>
tokenVars == <<jwt_now, jwt_token, jwt_kind, decoded>>
mediatorVars ==
    <<nc_connected, nc_active, nc_created, subscriptions, sub_ids, med_outcome>>
auxVars ==
    <<matchVars, registerVars, equalityVars, requestVars, concurrentVars, scopeVars, mediatorVars, repoVars, tokenVars>>
vars == <<combineVars, createVars, depVars, dispatchVars, auxVars>>

(***************************************************************************)
(* Bounds of the model.                                                    *)
(***************************************************************************)
MaxLen == 3         \* longest list / mapping of Results handed to combine
MaxItems == 3       \* longest raw list handed to a list field
MaxParams == 3      \* most parameters a handler declares
MaxTokens == 3      \* most tokens of a topic pattern (a subject has one more)
MaxClock == 2        \* last minute the clock of the token model reaches
MaxVersion == 2      \* highest version an entity state is evolved to
MaxServices == 2     \* most subscribe calls made on one mediator
MaxSubscribers == 2 \* most subscribers registered on one Service

(***************************************************************************)
(* Python values.  Every value is a record tagged by `kind`.               *)
(***************************************************************************)
Null == [kind |-> "null"]
IntV(n) == [kind |-> "int", n |-> n]
BoolV(b) == [kind |-> "bool", b |-> b]
StrV(s) == [kind |-> "str", s |-> s]
ListV(items) == [kind |-> "list", items |-> items]
DictV(d) == [kind |-> "dict", d |-> d]
ObjV(c, fields) == [kind |-> "obj", cls |-> c, fields |-> fields]

\* a str the model never looks into (a code, a type name, a message)
Text(t) == [kind |-> "str", s |-> <<t>>]

NotRun == [tag |-> "not_run"]
NoField == "<None>"
NoHints == [kind |-> "dict", d |-> [k \in {} |-> Null]]

(***************************************************************************)
(* errors.py: the Error record and its subclasses' fixed codes.            *)
(***************************************************************************)
Error(code, field, errors, hints, debug) ==
    [kind |-> "error", code |-> code, field |-> field, errors |-> errors,
     hints |-> hints, debug |-> debug]

MissingField(field) == Error("missing_field", field, <<>>, NoHints, NoHints)

InvalidField(field, hints, errors) ==
    Error("invalid_field", field, errors, hints, NoHints)

ValidationFailed(errors) ==
    Error("validation_failed", NoField, errors, NoHints, NoHints)

InternalError(debug) ==
    Error("internal_error", NoField, <<>>, NoHints, debug)

(***************************************************************************)
(* result.py: Ok / Fail, and an outcome for a call that raised instead of  *)
(* returning.                                                              *)
(***************************************************************************)
Ok(value) == [tag |-> "ok", value |-> value, err |-> Null]
Fail(err) == [tag |-> "fail", value |-> Null, err |-> err]
Raised(exc) == [tag |-> "raise", value |-> Null, err |-> exc]

is_ok(res) == res.tag = "ok"
is_fail(res) == res.tag = "fail"

Exc(name) == [kind |-> "exc", name |-> name]

\* The values of the Ok elements / the errors of the Fail elements, in order
\* (the two comprehensions of combine).
RECURSIVE OkValues(_)
OkValues(rs) ==
    IF rs = <<>> THEN <<>>
    ELSE IF is_ok(Head(rs)) THEN <<Head(rs).value>> \o OkValues(Tail(rs))
    ELSE OkValues(Tail(rs))

RECURSIVE FailErrs(_)
FailErrs(rs) ==
    IF rs = <<>> THEN <<>>
    ELSE IF is_fail(Head(rs)) THEN <<Head(rs).err>> \o FailErrs(Tail(rs))
    ELSE FailErrs(Tail(rs))

\* A mapping of Results is a sequence of entries [key, res] in insertion
\* order, its keys distinct.
EntryResults(entries) == [i \in 1..Len(entries) |-> entries[i].res]

OkDict(entries) ==
    LET oks == {i \in 1..Len(entries) : is_ok(entries[i].res)}
    IN  [k \in {entries[i].key : i \in oks} |->
            entries[CHOOSE i \in oks : entries[i].key = k].res.value]

\* A combine that stops collecting at the first failure.
CombineList_firstonly(rs) ==
    LET errs == FailErrs(rs)
    IN  IF errs = <<>> THEN Ok(ListV(OkValues(rs)))
        ELSE Fail(InvalidField(NoField, NoHints, <<errs[1]>>))

CombineList(rs) ==
    LET list_values == OkValues(rs)
        errs == FailErrs(rs)
    IN  IF errs = <<>> THEN Ok(ListV(list_values))
        ELSE Fail(InvalidField(NoField, NoHints, errs))

CombineDict(entries) ==
    LET dict_values == OkDict(entries)
        errs == FailErrs(EntryResults(entries))
    IN  IF errs = <<>> THEN Ok(DictV(dict_values))
        ELSE Fail(InvalidField(NoField, NoHints, errs))

combine(arg) ==
    IF arg.form = "dict" THEN CombineDict(arg.items)
    ELSE CombineList(arg.items)

(***************************************************************************)
(* Python strings are sequences of one-character strings, so that str(),   *)
(* strip() and the regular expressions are computed, not assumed.          *)
(***************************************************************************)
Digits == <<"0", "1", "2", "3", "4", "5", "6", "7", "8", "9">>

AlnumLower ==
    {"0", "1", "2", "3", "4", "5", "6", "7", "8", "9",
     "a", "b", "c", "d", "e", "f", "g", "h", "i", "j", "k", "l", "m",
     "n", "o", "p", "q", "r", "s", "t", "u", "v", "w", "x", "y", "z"}

Whitespace == {" "}

IdLen == 26         \* ID_REGEX = ^[0-9a-z]{26}$

RECURSIVE NatToStr(_)
NatToStr(n) ==
    IF n < 10 THEN <<Digits[n + 1]>>
    ELSE NatToStr(n \div 10) \o <<Digits[(n % 10) + 1]>>

IntToStr(n) == IF n < 0 THEN <<"-">> \o NatToStr(0 - n) ELSE NatToStr(n)

\* str(raw), for the kinds of value json.loads produces
PyStr(v) ==
    CASE v.kind = "str" -> v.s
      [] v.kind = "int" -> IntToStr(v.n)
      [] v.kind = "bool" -> IF v.b THEN <<"T", "r", "u", "e">> ELSE <<"F", "a", "l", "s", "e">>
      [] v.kind = "null" -> <<"N", "o", "n", "e">>
      [] v.kind = "list" -> <<"[", "]">>      \* a repr in brackets
      [] OTHER -> <<"{", "}">>                \* a repr in braces

RECURSIVE LStrip(_)
LStrip(s) == IF s # <<>> /\ Head(s) \in Whitespace THEN LStrip(Tail(s)) ELSE s

RECURSIVE RStrip(_)
RStrip(s) ==
    IF s # <<>> /\ s[Len(s)] \in Whitespace THEN RStrip(SubSeq(s, 1, Len(s) - 1)) ELSE s

Strip(s) == RStrip(LStrip(s))

\* re.fullmatch(ID_REGEX, s) is not None
MatchesIdRegex(s) == Len(s) = IdLen /\ \A i \in 1..Len(s) : s[i] \in AlnumLower

to_snake_case(val) == val       \* a str is neither dict nor list: returned as is

(***************************************************************************)
(* Declared classes.  An annotation is a class, list[X] or X | None; an    *)
(* attrs field is [name, type, default].                                   *)
(***************************************************************************)
Cls(c) == [o |-> "cls", c |-> c]
ListOf(a) == [o |-> "list", arg |-> a]
OrNone(a) == [o |-> "union", arg |-> a]

NOTHING == [kind |-> "NOTHING"]
Factory(call) == [kind |-> "Factory", takes_self |-> FALSE, call |-> call]
FactorySelf(call) == [kind |-> "Factory", takes_self |-> TRUE, call |-> call]
Attr(name, type, default) == [name |-> name, type |-> type, default |-> default]

Builtins == {"str", "int", "float", "bool"}

\* attrs.fields(cls) of the Object subclasses the model constructs: ID
\* (primitives.py), the Message family (messaging.py) and the payload types
\* a service declares for its handlers.
attrs_fields(c) ==
    CASE c = "ID" -> <<Attr("value", Cls("str"), NOTHING)>>
      [] c = "DateTime" -> <<Attr("value", Cls("datetime"), NOTHING)>>
      [] c = "MsgContext" ->
            <<Attr("user_id", OrNone(Cls("ID")), Null),
              Attr("span_id", Cls("ID"), Factory("ID.new")),
              Attr("trace_id", Cls("ID"), Factory("ID.new")),
              Attr("extra", Cls("Map"), Factory("Map.empty")),
              Attr("client", Cls("MsgClient"), Factory("MsgClient.default"))>>
      [] c = "LocalizedText" -> <<Attr("value", Cls("dict"), Factory("dict"))>>
      [] c = "GetUser" -> <<Attr("id", Cls("ID"), NOTHING)>>
      [] c = "UserGet" ->
            <<Attr("name", Cls("str"), NOTHING),
              Attr("source", Cls("str"), NOTHING),
              Attr("payload", Cls("GetUser"), NOTHING),
              Attr("id", Cls("ID"), Factory("ID.new")),
              Attr("created_at", Cls("DateTime"), Factory("DateTime.now")),
              Attr("context", Cls("MsgContext"), Factory("MsgContext.default"))>>
      [] c = "GetUserKw" -> <<Attr("id", Cls("ID"), NOTHING)>>
      [] c = "UserGetKw" ->
            <<Attr("name", Cls("str"), NOTHING),
              Attr("source", Cls("str"), NOTHING),
              Attr("payload", Cls("GetUserKw"), NOTHING),
              Attr("id", Cls("ID"), Factory("ID.new")),
              Attr("created_at", Cls("DateTime"), Factory("DateTime.now")),
              Attr("context", Cls("MsgContext"), Factory("MsgContext.default"))>>
      [] c = "Order" ->
            <<Attr("uid", Cls("ID"), NOTHING),
              Attr("qty", Cls("int"), NOTHING),
              Attr("tags", ListOf(Cls("int")), NOTHING),
              Attr("refs", ListOf(Cls("ID")), NOTHING)>>
      [] c = "Profile" ->
            <<Attr("email", Cls("str"), NOTHING),
              Attr("nick", OrNone(Cls("str")), NOTHING),
              Attr("age", Cls("int"), IntV(18)),
              Attr("bio", OrNone(Cls("str")), Null),
              Attr("ref", Cls("ID"), Factory("ID.new")),
              Attr("slug", Cls("str"), FactorySelf("slug_of")),
              Attr("alias", OrNone(Cls("str")), FactorySelf("slug_of")),
              Attr("active", Cls("bool"), NOTHING)>>
      [] c = "Basket" ->
            <<Attr("owner", Cls("GetUser"), NOTHING),
              Attr("note", Cls("str"), NOTHING),
              Attr("lines", ListOf(Cls("GetUser")), NOTHING)>>
      [] OTHER -> <<>>

ObjectClasses ==
    {"ID", "DateTime", "LocalizedText", "MsgContext", "GetUser", "UserGet", "GetUserKw",
     "UserGetKw", "Order", "Profile", "Basket"}

\* _init is a classmethod a subclass may override.  GetUser and UserGet inherit
\* Object._init; GetUserKw and UserGetKw are the same classes with
\*     def _init(cls, **fields): return cls(**fields)
OverridesInit == {"GetUserKw", "UserGetKw"}

FieldNames(c) == {attrs_fields(c)[i].name : i \in 1..Len(attrs_fields(c))}
FieldNamed(c, name) ==
    attrs_fields(c)[CHOOSE i \in 1..Len(attrs_fields(c)) : attrs_fields(c)[i].name = name]

NewUlid == [i \in 1..IdLen |-> IF i % 2 = 0 THEN "0" ELSE "h"]

\* Map.empty() and MsgClient.default(): Map, Timezone and Locale.default are
\* imported by messaging.py from modules that do not define them; an empty
\* mapping and a client with no field set stand for what they build
MapEmpty == ObjV("Map", [value |-> DictV([k \in {} |-> Null])])
MsgClientDefault == ObjV("MsgClient", [ip_address |-> Null])

\* cls(**kwargs) of a kw_only attrs class: unknown or missing keywords are a
\* TypeError; an absent field takes its default.
RECURSIVE Construct(_, _)
RECURSIVE CallFactory(_)
CallFactory(call) ==
    CASE call = "ID.new" -> ObjV("ID", [value |-> StrV(NewUlid)])
      [] call = "DateTime.now" -> ObjV("DateTime", [value |-> [kind |-> "datetime", ms |-> 0]])
      [] call = "Map.empty" -> MapEmpty
      [] call = "dict" -> DictV([k \in {} |-> Null])
      [] call = "MsgClient.default" -> MsgClientDefault
      [] call = "MsgContext.default" -> Construct("MsgContext", [k \in {} |-> Null]).value
      [] OTHER -> Null

DefaultOf(attr) ==
    IF attr.default.kind = "Factory" THEN CallFactory(attr.default.call) ELSE attr.default

Construct(c, kwargs) ==
    LET required == {n \in FieldNames(c) : FieldNamed(c, n).default = NOTHING}
    IN  IF DOMAIN kwargs \subseteq FieldNames(c) /\ required \subseteq DOMAIN kwargs
        THEN Ok(ObjV(c, [n \in FieldNames(c) |->
                            IF n \in DOMAIN kwargs THEN kwargs[n]
                            ELSE DefaultOf(FieldNamed(c, n))]))
        ELSE Raised(Exc("TypeError"))

(***************************************************************************)
(* domain/base.py: the schema construction engine.                         *)
(***************************************************************************)
Get(d, key) == IF key \in DOMAIN d THEN d[key] ELSE Null

ExpectedReceived(expected, received) ==
    DictV([expected |-> Text(expected), received |-> received])

Constrained(expected, contraints, received) ==
    DictV([expected |-> Text(expected), contraints |-> DictV(contraints),
           received |-> received])

\* int(raw) under safe_call: None when int() raises
IsDigits(s) == s # <<>> /\ \A i \in 1..Len(s) : \E d \in 1..10 : Digits[d] = s[i]

RECURSIVE StrToNat(_)
StrToNat(s) ==
    IF s = <<>> THEN 0
    ELSE 10 * StrToNat(SubSeq(s, 1, Len(s) - 1))
         + ((CHOOSE d \in 1..10 : Digits[d] = s[Len(s)]) - 1)

PyInt(v) ==
    CASE v.kind = "int" -> IntV(v.n)
      [] v.kind = "bool" -> IntV(IF v.b THEN 1 ELSE 0)
      [] v.kind = "str" /\ IsDigits(Strip(v.s)) -> IntV(StrToNat(Strip(v.s)))
      [] OTHER -> Null

\* cls.prepare(raw): Object.prepare accepts anything; ID.prepare matches the
\* stripped str(raw) against ID_REGEX; DateTime.prepare takes a timestamp >= 0.
\* re.fullmatch(LOCALE_PATTERN, k) for the keys the model uses
MatchesLocalePattern(k) == k \in {"en", "fr", "en-US"}

\* safe_call(dict, raw): a mapping is copied, an empty str or list gives {},
\* a list of [key, value] pairs gives their mapping, anything else raises
\* and gives None (a pair whose key is no str is refused by prepare either way)
IsPair(x) ==
    /\ x.kind = "list"
    /\ Len(x.items) = 2
    /\ x.items[1].kind = "str"
    /\ Len(x.items[1].s) = 1

PyDict(raw) ==
    CASE raw.kind = "dict" -> raw
      [] raw.kind = "str" -> IF raw.s = <<>> THEN DictV([k \in {} |-> Null]) ELSE Null
      [] raw.kind = "list" ->
            IF \A i \in 1..Len(raw.items) : IsPair(raw.items[i])
            THEN DictV([k \in {raw.items[i].items[1].s[1] : i \in 1..Len(raw.items)} |->
                            LET last == CHOOSE i \in 1..Len(raw.items) :
                                            /\ raw.items[i].items[1].s[1] = k
                                            /\ \A j \in (i + 1)..Len(raw.items) :
                                                    raw.items[j].items[1].s[1] # k
                            IN  raw.items[last].items[2]])
            ELSE Null
      [] OTHER -> Null

Prepare(c, raw) ==
    CASE c = "ID" ->
            LET value == PyStr(raw)
            IN  IF MatchesIdRegex(Strip(value)) THEN Ok(StrV(Strip(value)))
                ELSE Fail(InvalidField(to_snake_case(c),
                                       Constrained("string", [pattern |-> Text("^[0-9a-z]{26}$")], raw), <<>>))
      [] c = "DateTime" ->
            LET value == PyInt(raw)
            IN  IF value # Null /\ value.n >= 0
                THEN Ok([kind |-> "datetime", ms |-> value.n])
                ELSE Fail(InvalidField(to_snake_case(c),
                                       Constrained("integer", [min |-> IntV(0)], raw), <<>>))
      [] c = "LocalizedText" ->
            LET value == PyDict(raw)
            IN  IF /\ value # Null
                   /\ \A k \in DOMAIN value.d : MatchesLocalePattern(k)
                   /\ \A k \in DOMAIN value.d : value.d[k].kind = "str"
                THEN Ok(value)
                ELSE Fail(InvalidField(to_snake_case(c),
                                       DictV([received |-> raw,
                                              expected |-> Text("Dictionaire<BCP47Locale, string>"),
                                              example |-> DictV([en |-> Text("An example")])]),
                                       <<>>))
      [] OTHER -> Ok(raw)

\* get_schema(cls): None for a class whose only field is `value`, else one
\* _SchemaItem per attrs field, in declaration order.
NoSchema == [none |-> TRUE, items |-> <<>>]

FirstArg(annotation) == annotation.arg      \* t.get_args(...)[0]

SchemaItemOf(attr) ==
    LET optional == attr.type.o = "union"
        c1 == IF optional THEN FirstArg(attr.type) ELSE attr.type
        is_list == c1.o = "list"
        c2 == IF is_list THEN FirstArg(attr.type) ELSE c1
    IN  [key |-> attr.name, cls |-> c2, is_list |-> is_list, optional |-> optional,
         default |-> attr.default]

SchemaOfFields(c, fields) ==
    IF c \notin ObjectClasses \/ (Len(fields) = 1 /\ fields[1].name = "value")
    THEN NoSchema
    ELSE [none |-> FALSE, items |-> [i \in 1..Len(fields) |-> SchemaItemOf(fields[i])]]

get_schema(c) == SchemaOfFields(c, attrs_fields(c))

\* hasattr(cls, "create") and callable(cls.create)
HasCreate(annotation) == annotation.o = "cls" /\ annotation.c \in ObjectClasses

\* type_checkers.get(self.cls) is not None
HasChecker(annotation) == annotation.o = "cls" /\ annotation.c \in Builtins

\* type_checkers[cls](raw); in Python True == 1 and False == 0
TypeCheck(c, x) ==
    CASE c = "bool" ->
            \/ x.kind = "bool"
            \/ x.kind = "int" /\ x.n \in {0, 1}
            \/ x.kind = "str" /\ x.s \in {<<"T", "r", "u", "e">>, <<"F", "a", "l", "s", "e">>}
      [] c = "str" -> x.kind \in {"str", "int", "bool"}
      [] c = "int" -> x.kind \in {"int", "bool"}
      [] c = "float" -> x.kind \in {"int", "bool"}
      [] OTHER -> FALSE

\* self.cls(raw) for a raw value the checker accepted
Coerce(c, x) ==
    CASE c = "bool" ->
            BoolV(CASE x.kind = "bool" -> x.b
                    [] x.kind = "int" -> x.n # 0
                    [] OTHER -> x.s # <<>>)
      [] c = "str" -> StrV(PyStr(x))
      [] c = "int" -> IntV(IF x.kind = "bool" THEN (IF x.b THEN 1 ELSE 0) ELSE x.n)
      [] OTHER -> [kind |-> "float", n |-> IF x.kind = "bool" THEN (IF x.b THEN 1 ELSE 0) ELSE x.n]

\* the first element that raised, if any: an exception leaves the loop
RaisedAt(rs) ==
    IF \E i \in 1..Len(rs) : rs[i].tag = "raise"
    THEN CHOOSE i \in 1..Len(rs) : rs[i].tag = "raise" /\ \A j \in 1..(i - 1) : rs[j].tag # "raise"
    ELSE Len(rs) + 1

FirstRaised(rs) ==
    IF \E i \in 1..Len(rs) : rs[i].tag = "raise"
    THEN rs[CHOOSE i \in 1..Len(rs) :
                rs[i].tag = "raise" /\ \A j \in 1..(i - 1) : rs[j].tag # "raise"]
    ELSE NotRun

\* Object._init(value)
_init(c, value) ==
    IF value.kind = "dict" THEN Construct(c, value.d)
    ELSE Construct(c, [value |-> value])

\* cls._init(**kwargs): Object._init takes the one parameter `value`
_init_kwargs(c, kwargs) ==
    IF c \in OverridesInit THEN Construct(c, kwargs)
    ELSE IF DOMAIN kwargs = {"value"} THEN _init(c, kwargs["value"])
    ELSE Raised(Exc("TypeError"))

IndexedField(key, idx) == key \o "[" \o ToString(idx) \o "]"

RECURSIVE ObjectCreate(_, _)
RECURSIVE SchemaItem_create(_, _, _)
RECURSIVE SchemaItemCreate(_, _)

\* _SchemaItem._create(raw, field)
SchemaItem_create(item, raw, field) ==
    IF HasCreate(item.cls) THEN ObjectCreate(item.cls.c, raw)
    ELSE IF ~HasChecker(item.cls) THEN Ok(raw)
    ELSE IF TypeCheck(item.cls.c, raw) THEN Ok(Coerce(item.cls.c, raw))
    ELSE Fail(InvalidField(IF field = NoField THEN item.key ELSE field,
                           ExpectedReceived(item.cls.c, raw), <<>>))

\* a create that takes any falsy sub-value (0, "", an empty list) for a missing one
SchemaItemCreate_falsy_is_missing(item, raw) ==
    LET raw_item == IF raw.kind = "dict" THEN Get(raw.d, item.key) ELSE raw
        missing == raw_item \in {Null, IntV(0), StrV(<<>>), ListV(<<>>), BoolV(FALSE)}
    IN  IF missing /\ item.default # NOTHING /\ item.default.kind # "Factory"
        THEN Ok(item.default)
        ELSE IF missing /\ item.default # NOTHING /\ item.default.takes_self = FALSE
        THEN Ok(CallFactory(item.default.call))
        ELSE IF item.optional /\ missing THEN Ok(Null)
        ELSE IF missing THEN Fail(MissingField(item.key))
        ELSE IF item.is_list /\ raw_item.kind = "list"
        THEN LET rs == [i \in 1..Len(raw_item.items) |->
                            SchemaItem_create(item, raw_item.items[i],
                                              IndexedField(item.key, i - 1))]
                 res == CombineList(rs)
             IN  IF FirstRaised(rs) # NotRun THEN FirstRaised(rs)
                 ELSE IF is_fail(res) THEN Fail([res.err EXCEPT !.field = item.key])
                 ELSE res
        ELSE IF item.is_list THEN Fail(InvalidField(item.key, NoHints, <<>>))
        ELSE SchemaItem_create(item, raw_item, NoField)

\* _SchemaItem.create(raw), list branch: res = combine(results); a failure
\* is reported under the field's key
ListFieldCombined(item, rs, res) ==
    IF FirstRaised(rs) # NotRun THEN FirstRaised(rs)
    ELSE IF is_fail(res) THEN Fail([res.err EXCEPT !.field = item.key])
    ELSE res

ListFieldResult(item, rs) == ListFieldCombined(item, rs, CombineList(rs))

\* _SchemaItem.create(raw) once raw_item = raw.get(self.key) is taken
SchemaItemCreateOf(item, raw_item) ==
    IF raw_item = Null /\ item.default # NOTHING /\ item.default.kind # "Factory"
    THEN Ok(item.default)
    ELSE IF raw_item = Null /\ item.default # NOTHING /\ item.default.takes_self = FALSE
    THEN Ok(CallFactory(item.default.call))
    ELSE IF item.optional /\ raw_item = Null THEN Ok(Null)
    ELSE IF raw_item = Null THEN Fail(MissingField(item.key))
    ELSE IF item.is_list /\ raw_item.kind = "list"
    THEN ListFieldResult(item, [i \in 1..Len(raw_item.items) |->
                                    SchemaItem_create(item, raw_item.items[i],
                                                      IndexedField(item.key, i - 1))])
    ELSE IF item.is_list THEN Fail(InvalidField(item.key, NoHints, <<>>))
    ELSE SchemaItem_create(item, raw_item, NoField)

\* _SchemaItem.create(raw)
SchemaItemCreate(item, raw) ==
    SchemaItemCreateOf(item, IF raw.kind = "dict" THEN Get(raw.d, item.key) ELSE raw)

\* the loop of Object.create: results[key] = item.create(value), up to the
\* first item.create that raises
ItemResultsOf(items, value) ==
    [i \in 1..Len(items) |-> SchemaItemCreate(items[i], value)]

ItemResults(c, value) == ItemResultsOf(get_schema(c).items, value)

\* the results dict the loop has filled: one entry per item visited
ResultsDictOf(items, rs) ==
    [i \in 1..(RaisedAt(rs) - 1) |-> [key |-> items[i].key, res |-> rs[i]]]

ResultsDict(c, value) == ResultsDictOf(get_schema(c).items, ItemResults(c, value))

\* Object.create after the loop: res = combine(results), then
\* cls._init(**res.value)
CreateCombined(c, rs, res) ==
    IF FirstRaised(rs) # NotRun THEN FirstRaised(rs)
    ELSE IF is_ok(res) THEN _init_kwargs(c, res.value.d)
    ELSE res

CreateFromItems(c, items, rs) == CreateCombined(c, rs, CombineDict(ResultsDictOf(items, rs)))

\* Object.create once prepare has returned
CreateFromPrepared(c, prepare_result, schema) ==
    IF is_fail(prepare_result) THEN prepare_result
    ELSE IF schema = NoSchema THEN _init(c, prepare_result.value)
    ELSE CreateFromItems(c, schema.items, ItemResultsOf(schema.items, prepare_result.value))

\* Object.create(raw)
ObjectCreate(c, raw) ==
    IF raw = Null THEN Fail(MissingField(to_snake_case(c)))
    ELSE CreateFromPrepared(c, Prepare(c, raw), get_schema(c))

(***************************************************************************)
(* utils/dep_injection.py: call_with_dependencies and resolve.             *)
(*                                                                         *)
(* A parameter is [name, dep, default]: dep is the callable its annotation *)
(* marks with depend(...), or NoDep; default is its static default, or     *)
(* Empty (inspect.Parameter.empty).                                        *)
(***************************************************************************)
NoDep == "<no dependency>"
Empty == [kind |-> "empty"]
NoExc == [kind |-> "none"]
Param(name, dep, default) == [name |-> name, dep |-> dep, default |-> default]

Providers == {"get_settings", "get_conn", "get_session", "get_repo", "get_user"}

\* get_signature(fn) of the providers
ProviderSig(fn) ==
    CASE fn = "get_settings" -> <<>>
      [] fn = "get_conn" -> <<Param("settings", "get_settings", Empty)>>
      [] fn = "get_session" ->
            <<Param("conn", "get_conn", Empty), Param("settings", "get_settings", Empty)>>
      [] fn = "get_repo" ->
            <<Param("session", "get_session", Empty),
              Param("tenant", NoDep, StrV(<<"p", "u", "b">>))>>
      [] fn = "get_user" -> <<Param("token", NoDep, Empty)>>
      [] OTHER -> <<>>

\* the providers whose result is an async generator or an async context
\* manager, entered through the exit stack
Scoped == {"get_conn", "get_session"}

get_signature(fn) == IF fn = "handler" THEN handler.sig ELSE ProviderSig(fn)

Top == frames[Len(frames)]
TopParam == get_signature(Top.fn)[Top.idx]
AtParam == pc = "resolving" /\ frames # <<>> /\ Top.idx <= Len(get_signature(Top.fn))
AllBound == pc = "resolving" /\ frames # <<>> /\ Top.idx > Len(get_signature(Top.fn))

\* context.get(param.name) is not None
InContext(name) == name \in DOMAIN context /\ context[name] # Null

\* a resolve that never finds its provider in the cache
Cached_never(fn) == FALSE

\* fn in cache
Cached(fn) == fn \in DOMAIN cache

\* the innermost frame with its current parameter bound to value
BindTop(value) ==
    [frames EXCEPT ![Len(frames)] =
        [@ EXCEPT !.kwargs = (TopParam.name :> value) @@ @, !.idx = @ + 1]]

\* call_with_dependencies(fn, context): open the exit stack, start resolve
StartCall(sig, ctx) ==
    /\ pc = "idle"
    /\ pc' = "resolving"
    /\ handler' = [sig |-> sig]
    /\ context' = ctx
    /\ frames' = <<[fn |-> "handler", idx |-> 1, kwargs |-> <<>>]>>
    /\ UNCHANGED <<cache, exit_stack, calls, bound, acquired, released, retval,
                   pending, outcome>>

BindFromContext ==
    /\ AtParam
    /\ InContext(TopParam.name)
    /\ frames' = BindTop(context[TopParam.name])
    /\ UNCHANGED <<pc, handler, context, cache, exit_stack, calls, bound, acquired,
                   released, retval, pending, outcome>>

\* resolve(dep.call, ...) returning at once: the provider is in the cache
ResolveCached ==
    /\ AtParam
    /\ ~InContext(TopParam.name)
    /\ TopParam.dep # NoDep
    /\ Cached(TopParam.dep)
    /\ frames' = BindTop(cache[TopParam.dep])
    /\ UNCHANGED <<pc, handler, context, cache, exit_stack, calls, bound, acquired,
                   released, retval, pending, outcome>>

\* resolve(dep.call, ...) entered: the provider's own parameters come first
EnterDependency ==
    /\ AtParam
    /\ ~InContext(TopParam.name)
    /\ TopParam.dep # NoDep
    /\ ~Cached(TopParam.dep)
    /\ frames' = Append(frames, [fn |-> TopParam.dep, idx |-> 1, kwargs |-> <<>>])
    /\ UNCHANGED <<pc, handler, context, cache, exit_stack, calls, bound, acquired,
                   released, retval, pending, outcome>>

BindDefault ==
    /\ AtParam
    /\ ~InContext(TopParam.name)
    /\ TopParam.dep = NoDep
    /\ TopParam.default # Empty
    /\ frames' = BindTop(TopParam.default)
    /\ UNCHANGED <<pc, handler, context, cache, exit_stack, calls, bound, acquired,
                   released, retval, pending, outcome>>

\* a resolve that passes None for the parameter and goes on
Unresolvable_binds_none ==
    /\ AtParam
    /\ ~InContext(TopParam.name)
    /\ TopParam.dep = NoDep
    /\ TopParam.default = Empty
    /\ frames' = BindTop(Null)
    /\ UNCHANGED <<pc, handler, context, cache, exit_stack, calls, bound, acquired,
                   released, retval, pending, outcome>>

\* raise TypeError("Unresolvable dependency parameter")
Unresolvable ==
    /\ AtParam
    /\ ~InContext(TopParam.name)
    /\ TopParam.dep = NoDep
    /\ TopParam.default = Empty
    /\ frames' = <<>>
    /\ pending' = Exc("TypeError")
    /\ pc' = "exiting"
    /\ UNCHANGED <<handler, context, cache, exit_stack, calls, bound, acquired,
                   released, retval, outcome>>

\* the value a provider returns: new at every invocation
Produced(fn, n) == [kind |-> "dep", of |-> fn, n |-> n]

\* fn(**kwargs) of a provider returns (a scoped one is entered through the
\* exit stack); the value is cached and handed to the waiting parameter
ProviderReturns ==
    /\ AllBound
    /\ Top.fn # "handler"
    /\ LET fn == Top.fn
           value == Produced(fn, calls[fn] + 1)
           outer == SubSeq(frames, 1, Len(frames) - 1)
           waiting == get_signature(outer[Len(outer)].fn)[outer[Len(outer)].idx]
       IN  /\ calls' = [calls EXCEPT ![fn] = @ + 1]
           /\ bound' = (fn :> Top.kwargs) @@ bound
           /\ exit_stack' = IF fn \in Scoped THEN Append(exit_stack, fn) ELSE exit_stack
           /\ acquired' = IF fn \in Scoped THEN Append(acquired, fn) ELSE acquired
           /\ cache' = (fn :> value) @@ cache
           /\ frames' = [outer EXCEPT ![Len(outer)] =
                            [@ EXCEPT !.kwargs = (waiting.name :> value) @@ @,
                                      !.idx = @ + 1]]
    /\ UNCHANGED <<pc, handler, context, released, retval, pending, outcome>>

\* fn(**kwargs) of a provider raises (or entering its context manager does)
ProviderRaises ==
    /\ AllBound
    /\ Top.fn # "handler"
    /\ calls' = [calls EXCEPT ![Top.fn] = @ + 1]
    /\ bound' = (Top.fn :> Top.kwargs) @@ bound
    /\ frames' = <<>>
    /\ pending' = Exc("ProviderError")
    /\ pc' = "exiting"
    /\ UNCHANGED <<handler, context, cache, exit_stack, acquired, released, retval,
                   outcome>>

\* resolve(fn, no_call=True) returned kwargs: await fn(**kwargs)
InvokeHandler ==
    /\ AllBound
    /\ Top.fn = "handler"
    /\ bound' = ("handler" :> Top.kwargs) @@ bound
    /\ frames' = <<>>
    /\ pc' = "running"
    /\ UNCHANGED <<handler, context, cache, exit_stack, calls, acquired, released,
                   retval, pending, outcome>>

NotFound == Error("not_found", NoField, <<>>, NoHints, NoHints)

\* what a handler may return: a Result, or (against its type) None
HandlerReturnValues ==
    {Ok(IntV(1)), Ok(Null), Ok([kind |-> "object"]), Fail(NotFound), Null}

HandlerExceptions == {NotFound, Exc("ValueError")}

HandlerReturns ==
    /\ pc = "running"
    /\ \E rv \in HandlerReturnValues : retval' = rv
    /\ pc' = "exiting"
    /\ UNCHANGED <<handler, context, frames, cache, exit_stack, calls, bound, acquired,
                   released, pending, outcome>>

HandlerRaises ==
    /\ pc = "running"
    /\ \E exc \in HandlerExceptions : pending' = exc
    /\ pc' = "exiting"
    /\ UNCHANGED <<handler, context, frames, cache, exit_stack, calls, bound, acquired,
                   released, retval, outcome>>

\* an exit stack that unwinds in entry order
Release_fifo ==
    /\ pc = "exiting"
    /\ exit_stack # <<>>
    /\ released' = Append(released, exit_stack[1])
    /\ exit_stack' = Tail(exit_stack)
    /\ \E raises \in BOOLEAN : pending' = IF raises THEN Exc("CleanupError") ELSE pending
    /\ UNCHANGED <<pc, handler, context, frames, cache, calls, bound, acquired, retval,
                   outcome>>

\* the exit stack unwinds: the resource entered last is exited first; an
\* exit that raises replaces the exception in flight
Release ==
    /\ pc = "exiting"
    /\ exit_stack # <<>>
    /\ released' = Append(released, exit_stack[Len(exit_stack)])
    /\ exit_stack' = SubSeq(exit_stack, 1, Len(exit_stack) - 1)
    /\ \E raises \in BOOLEAN : pending' = IF raises THEN Exc("CleanupError") ELSE pending
    /\ UNCHANGED <<pc, handler, context, frames, cache, calls, bound, acquired, retval,
                   outcome>>

\* a call that turns the exception in flight into a returned Fail
ExitScope_returns_fail ==
    /\ pc = "exiting"
    /\ exit_stack = <<>>
    /\ outcome' = IF pending = NoExc THEN [tag |-> "returned", value |-> retval, err |-> Null]
                  ELSE [tag |-> "returned", err |-> Null,
                        value |-> Fail(IF pending.kind = "error" THEN pending
                                       ELSE InternalError(NoHints))]
    /\ pc' = "exited"
    /\ UNCHANGED <<handler, context, frames, cache, exit_stack, calls, bound, acquired,
                   released, retval, pending>>

\* the `async with` block is left: the call returns or re-raises
ExitScope ==
    /\ pc = "exiting"
    /\ exit_stack = <<>>
    /\ outcome' = IF pending = NoExc THEN [tag |-> "returned", value |-> retval, err |-> Null]
                  ELSE Raised(pending)
    /\ pc' = "exited"
    /\ UNCHANGED <<handler, context, frames, cache, exit_stack, calls, bound, acquired,
                   released, retval, pending>>

(***************************************************************************)
(* combine applied to bounded lists and mappings of Results.               *)
(***************************************************************************)
ResultPool ==
    {Ok(IntV(1)), Ok(Null), Fail(MissingField("a")),
     Fail(InvalidField("b", NoHints, <<>>))}

KeyPool == {"a", "b", "c", "d"}

SeqsUpTo(S, n) == UNION {[1..k -> S] : k \in 0..n}

ListArgs == {[form |-> "list", items |-> rs] : rs \in SeqsUpTo(ResultPool, MaxLen)}

DictArgs ==
    {[form |-> "dict", items |-> [i \in 1..Len(ks) |-> [key |-> ks[i], res |-> rs[i]]]] :
        <<ks, rs>> \in
            {p \in SeqsUpTo(KeyPool, MaxLen) \X SeqsUpTo(ResultPool, MaxLen) :
                /\ Len(p[1]) = Len(p[2])
                /\ \A i, j \in 1..Len(p[1]) : i # j => p[1][i] # p[1][j]}}

IdleCombine == results = [form |-> "list", items |-> <<>>] /\ combined = NotRun
IdleCreate == create_cls = "ID" /\ create_raw = Null /\ field_results = <<>> /\ created = NotRun
IdleDispatch ==
    /\ subscriber = [topic |-> "", msg_arg |-> "", queued |-> FALSE, will_reply |-> FALSE,
                     service_name |-> "", msg_type |-> "", js_stream |-> Null,
                     callback |-> <<>>]
    /\ wpc = "unsubscribed"
    /\ delivered = [kind |-> "none"]
    /\ raw_msg = Null
    /\ result = NotRun
    /\ responded = <<>>
    /\ acked = 0
    /\ naked = <<>>
    /\ printed = <<>>

IdleMatch ==
    /\ match_pattern = StrV(<<>>)
    /\ match_message = DictV(<<>>)
    /\ matched = NotRun

IdleRegister ==
    /\ service_subscribers = <<>>
    /\ registration = [via |-> "none", topic |-> "", queued |-> FALSE, stream |-> Null,
                       callback |-> [params |-> <<>>, coroutine |-> FALSE],
                       outcome |-> [kind |-> "none"]]

IdleEquality ==
    /\ eq_left = Null
    /\ eq_right = Null
    /\ eq_result = NotRun
    /\ eq_swapped = NotRun

IdleRequest ==
    /\ req_pc = "idle"
    /\ req_msg = Null
    /\ req_response = [kind |-> "none"]
    /\ req_result = NotRun

IdleConcurrent ==
    /\ tasks = <<>>
    /\ invocations = <<>>

IdleScope ==
    /\ scope_pc = "idle"
    /\ gens = <<>>
    /\ scope_stack = <<>>
    /\ scope_exc = [kind |-> "none"]

IdleMediator ==
    /\ nc_connected = FALSE
    /\ nc_active = {}
    /\ nc_created = 0
    /\ subscriptions = <<>>
    /\ sub_ids = 0
    /\ med_outcome = [kind |-> "none"]

IdleRepo ==
    /\ pg_table = <<>>
    /\ held = <<>>
    /\ save_outcome = <<>>
    /\ repo_last = [task |-> 0, op |-> "none"]

IdleToken ==
    /\ jwt_now = 0
    /\ jwt_token = Null
    /\ jwt_kind = ""
    /\ decoded = NotRun

IdleAux == IdleMatch /\ IdleRegister /\ IdleEquality /\ IdleRequest /\ IdleConcurrent /\ IdleScope /\ IdleMediator /\ IdleRepo /\ IdleToken

IdleDeps ==
    /\ pc = "idle"
    /\ handler = [sig |-> <<>>]
    /\ context = <<>>
    /\ frames = <<>>
    /\ cache = <<>>
    /\ exit_stack = <<>>
    /\ calls = [p \in Providers |-> 0]
    /\ bound = <<>>
    /\ acquired = <<>>
    /\ released = <<>>
    /\ retval = NotRun
    /\ pending = NoExc
    /\ outcome = NotRun

InitCombine ==
    /\ results \in ListArgs \cup DictArgs
    /\ combined = NotRun
    /\ IdleCreate
    /\ IdleDeps
    /\ IdleDispatch
    /\ IdleAux

Combine ==
    /\ combined = NotRun
    /\ combined' = combine(results)
    /\ UNCHANGED <<results, createVars, depVars, dispatchVars, auxVars>>

NextCombine == Combine

SpecCombine == InitCombine /\ [][NextCombine]_vars

(***************************************************************************)
(* C1.  combine returns Ok iff every element is Ok; a Fail has code        *)
(* "invalid_field" and its errors are exactly the failing elements'        *)
(* errors: same count, same relative order, none skipped.                  *)
(***************************************************************************)
ArgResults == IF results.form = "dict" THEN EntryResults(results.items) ELSE results.items

FailingIdx == {i \in 1..Len(ArgResults) : ArgResults[i].tag = "fail"}

\* the j-th failing position, counted from the front
NthFailing(j) == CHOOSE i \in FailingIdx : Cardinality({k \in FailingIdx : k <= i}) = j

C1_CombineCollectsAll ==
    combined # NotRun =>
        /\ (combined.tag = "ok") <=> (FailingIdx = {})
        /\ combined.tag \in {"ok", "fail"}
        /\ combined.tag = "fail" =>
            /\ combined.err.code = "invalid_field"
            /\ Len(combined.err.errors) = Cardinality(FailingIdx)
            /\ \A j \in 1..Len(combined.err.errors) :
                    combined.err.errors[j] = ArgResults[NthFailing(j)].err

C1_Witness ==
    /\ combined # NotRun
    /\ combined.tag = "fail"
    /\ Cardinality(FailingIdx) >= 2
    /\ \E i \in 1..Len(ArgResults) : ArgResults[i].tag = "ok" /\ i < NthFailing(2)

(***************************************************************************)
(* Object.create applied to bounded raw inputs.                                 *)
(***************************************************************************)
Absent == [kind |-> "absent"]

\* a JSON object holding the keys of f whose value is present
MkDict(f) == DictV([k \in {k \in DOMAIN f : f[k] # Absent} |-> f[k]])

ValidId == [i \in 1..IdLen |-> IF i % 2 = 0 THEN "7" ELSE "k"]
PaddedId == <<" ">> \o ValidId \o <<" ">>
ShortId == SubSeq(ValidId, 1, IdLen - 1)
UpperId == [ValidId EXCEPT ![3] = "K"]

RawIds == {StrV(ValidId), StrV(PaddedId), StrV(ShortId), StrV(UpperId), IntV(7)}

GoodUser == MkDict([id |-> StrV(ValidId)])
BadUser == MkDict([id |-> StrV(ShortId)])
EmptyDict == DictV([k \in {} |-> Null])

RawLists(S) == {ListV(l) : l \in SeqsUpTo(S, MaxItems)}

RawOrders ==
    {MkDict([uid |-> a, qty |-> b, tags |-> c, refs |-> d]) :
        a \in {Absent, StrV(ValidId), StrV(ShortId)},
        b \in {Absent, IntV(2), StrV(<<"x">>)},
        c \in {Absent, StrV(<<"x">>)} \cup RawLists({IntV(1), StrV(<<"x">>)}),
        d \in {Absent} \cup RawLists({StrV(ValidId), StrV(UpperId)})}

RawBaskets ==
    {MkDict([owner |-> a, note |-> b, lines |-> c]) :
        a \in {Absent, GoodUser, BadUser, EmptyDict},
        b \in {Absent, StrV(<<"h", "i">>), IntV(5), ListV(<<>>)},
        c \in {Absent} \cup RawLists({GoodUser, BadUser})}

RawUserGets ==
    {MkDict([name |-> a, source |-> b, payload |-> c, id |-> d, created_at |-> e]) :
        a \in {Absent, StrV(<<"u", "s", "e", "r", ".", "g", "e", "t">>)},
        b \in {Absent, StrV(<<"t", "e", "s", "t">>)},
        c \in {Absent, GoodUser, BadUser, EmptyDict},
        d \in {Absent, StrV(ValidId), StrV(ShortId)},
        e \in {Absent, IntV(5), StrV(<<"x">>)}}

RawTexts ==
    {Null, EmptyDict, StrV(<<>>), StrV(<<"h", "i">>), IntV(3), ListV(<<>>),
     ListV(<<ListV(<<Text("en"), Text("Hello")>>)>>),
     ListV(<<ListV(<<Text("en"), Text("Hello")>>), ListV(<<Text("en"), Text("Hi")>>)>>),
     DictV([en |-> Text("Hello")]),
     DictV([en |-> Text("Hello"), fr |-> Text("Salut")]),
     DictV([EN |-> Text("Hello")]),
     DictV([value |-> Text("Hello")]),
     DictV([en |-> IntV(1)])}

RawProfiles ==
    {MkDict([email |-> a, nick |-> b, age |-> c, bio |-> d, ref |-> e, slug |-> f,
             alias |-> g, active |-> h]) :
        a \in {Absent, StrV(<<"m">>)},
        b \in {Absent, Null, StrV(<<>>)},
        c \in {Absent, Null, IntV(0)},
        d \in {Absent, StrV(<<"b">>)},
        e \in {Absent, StrV(ValidId), StrV(ShortId)},
        f \in {Absent, StrV(<<"s">>)},
        g \in {Absent, StrV(<<>>)},
        h \in {Absent, BoolV(TRUE)}}
    \cup
    {MkDict([email |-> StrV(<<"m">>), slug |-> StrV(<<"s">>), age |-> c, active |-> h]) :
        c \in {Absent, IntV(0), StrV(<<"x">>), StrV(<<"4", "2">>), BoolV(TRUE)},
        h \in {BoolV(TRUE), BoolV(FALSE), StrV(<<"T", "r", "u", "e">>),
               StrV(<<"F", "a", "l", "s", "e">>), StrV(<<"t", "r", "u", "e">>), IntV(1),
               IntV(2), ListV(<<>>)}}

RawInputs(c) ==
    CASE c = "ID" -> RawIds \cup {Null, ListV(<<>>)}
      [] c = "LocalizedText" -> RawTexts
      [] c = "GetUser" -> {Null, GoodUser, BadUser, EmptyDict, MkDict([id |-> StrV(PaddedId)])}
      [] c = "Order" -> RawOrders
      [] c = "Profile" -> RawProfiles
      [] c = "Basket" -> RawBaskets
      [] c = "UserGet" -> RawUserGets \cup {Null}
      [] OTHER -> {}

CreatedClasses ==
    {"ID", "LocalizedText", "GetUser", "Order", "Profile", "Basket", "UserGet"}

\* the per-field results Object.create collected, when it got to its loop
FieldResultsOf(raw, prepare_result, schema) ==
    IF raw # Null /\ is_ok(prepare_result) /\ schema # NoSchema
    THEN ResultsDictOf(schema.items, ItemResultsOf(schema.items, prepare_result.value))
    ELSE <<>>

FieldResults(c, raw) == FieldResultsOf(raw, Prepare(c, raw), get_schema(c))

InitCreate ==
    /\ create_cls \in CreatedClasses
    /\ create_raw \in RawInputs(create_cls)
    /\ field_results = <<>>
    /\ created = NotRun
    /\ IdleCombine
    /\ IdleDeps
    /\ IdleDispatch
    /\ IdleAux

Create ==
    /\ created = NotRun
    /\ created' = ObjectCreate(create_cls, create_raw)
    /\ field_results' = FieldResults(create_cls, create_raw)
    /\ UNCHANGED <<create_cls, create_raw, combineVars, depVars, dispatchVars, auxVars>>

NextCreate == Create

SpecCreate == InitCreate /\ [][NextCreate]_vars

IsComposite(c) == get_schema(c) # NoSchema

FailingFields == {i \in 1..Len(field_results) : field_results[i].res.tag = "fail"}

NthFailingField(j) ==
    CHOOSE i \in FailingFields : Cardinality({k \in FailingFields : k <= i}) = j

\* every declared field of create_cls has a result, i.e. no item.create raised
AllFieldsVisited == Len(field_results) = Len(attrs_fields(create_cls))

(***************************************************************************)
(* C2.  Object.create on a composite type with k invalid or missing        *)
(* fields returns a Fail whose aggregated error lists exactly k            *)
(* sub-errors, one per failing field, in declaration order.                *)
(***************************************************************************)
C2_AllFieldErrorsReported ==
    (created # NotRun /\ IsComposite(create_cls) /\ FailingFields # {}) =>
        /\ created.tag = "fail"
        /\ Len(created.err.errors) = Cardinality(FailingFields)
        /\ \A j \in 1..Cardinality(FailingFields) :
                created.err.errors[j] = field_results[NthFailingField(j)].res.err

(***************************************************************************)
(* C3.  Object.create on a composite type whose declared fields all        *)
(* validate returns Ok holding an instance with the combined field values; *)
(* it never raises.                                                        *)
(***************************************************************************)
C3_CompositeCreated ==
    (created # NotRun /\ IsComposite(create_cls) /\ create_raw # Null /\ AllFieldsVisited
        /\ FailingFields = {}) =>
        /\ created.tag = "ok"
        /\ created.value.kind = "obj"
        /\ created.value.cls = create_cls
        /\ \A i \in 1..Len(field_results) :
                created.value.fields[field_results[i].key] = field_results[i].res.value

(***************************************************************************)
(* C5.  A list field in which exactly one of three elements is invalid     *)
(* yields one aggregated error whose field is the outer key and whose      *)
(* nested errors list has length 1, that error's field naming the failing  *)
(* index (key[idx]), whatever the element type.                            *)
(***************************************************************************)
WellFormedId(v) == v.kind = "str" /\ MatchesIdRegex(Strip(v.s))

\* whether a raw list element is valid for the declared element type
ElementValid(c, e) ==
    CASE c = "int" -> e.kind = "int"
      [] c = "ID" -> WellFormedId(e)
      [] c = "GetUser" -> e.kind = "dict" /\ "id" \in DOMAIN e.d /\ WellFormedId(e.d["id"])
      [] OTHER -> TRUE

RawListOf(i) == Get(create_raw.d, field_results[i].key)

InvalidElements(i) ==
    {j \in 1..Len(RawListOf(i).items) :
        ~ElementValid(get_schema(create_cls).items[i].cls.c, RawListOf(i).items[j])}

\* the list fields materialized from three elements, exactly one invalid
OneOfThreeInvalid ==
    {i \in 1..Len(field_results) :
        /\ get_schema(create_cls).items[i].is_list
        /\ RawListOf(i).kind = "list"
        /\ Len(RawListOf(i).items) = 3
        /\ Cardinality(InvalidElements(i)) = 1}

ElementClass(i) == get_schema(create_cls).items[i].cls.c

ListErrorIndexed(i) ==
    LET res == field_results[i].res
        idx == CHOOSE j \in InvalidElements(i) : TRUE
    IN  /\ res.tag = "fail"
        /\ res.err.code = "invalid_field"
        /\ res.err.field = field_results[i].key
        /\ Len(res.err.errors) = 1
        /\ res.err.errors[1].field = IndexedField(field_results[i].key, idx - 1)

C5_ListElementErrorIndexed ==
    (created # NotRun /\ IsComposite(create_cls)) =>
        \A i \in OneOfThreeInvalid : ListErrorIndexed(i)

(***************************************************************************)
(* call_with_dependencies applied to bounded handlers and contexts.        *)
(***************************************************************************)
ParamPool ==
    {Param("msg", NoDep, Empty),
     Param("conn", "get_conn", Empty),
     Param("conn2", "get_conn", Empty),
     Param("session", "get_session", Empty),
     Param("repo", "get_repo", Empty),
     Param("user", "get_user", Empty),
     Param("limit", NoDep, IntV(10))}

HandlerSigs ==
    {sig \in SeqsUpTo(ParamPool, MaxParams) :
        \A i, j \in 1..Len(sig) : i # j => sig[i].name # sig[j].name}

TheMsg == [kind |-> "obj", cls |-> "UserGet", fields |-> <<>>]

Contexts ==
    {<<>>,
     [msg |-> TheMsg],
     [msg |-> TheMsg, token |-> StrV(<<"t">>)],
     [msg |-> TheMsg, settings |-> IntV(0), limit |-> Null],
     [conn |-> IntV(0), token |-> Null]}

InitDeps == IdleDeps /\ IdleCombine /\ IdleCreate /\ IdleDispatch /\ IdleAux

CallWithDependencies ==
    /\ pc = "idle"
    /\ \E sig \in HandlerSigs, ctx \in Contexts : StartCall(sig, ctx)
    /\ UNCHANGED <<combineVars, createVars, dispatchVars, auxVars>>

\* a step of the call touches the call's state only
OutsideCall == UNCHANGED <<combineVars, createVars, dispatchVars, auxVars>>

NextDeps ==
    \/ CallWithDependencies
    \/ BindFromContext /\ OutsideCall
    \/ ResolveCached /\ OutsideCall
    \/ EnterDependency /\ OutsideCall
    \/ BindDefault /\ OutsideCall
    \/ Unresolvable /\ OutsideCall
    \/ ProviderReturns /\ OutsideCall
    \/ ProviderRaises /\ OutsideCall
    \/ InvokeHandler /\ OutsideCall
    \/ HandlerReturns /\ OutsideCall
    \/ HandlerRaises /\ OutsideCall
    \/ Release /\ OutsideCall
    \/ ExitScope /\ OutsideCall

SpecDeps == InitDeps /\ [][NextDeps]_vars

(***************************************************************************)
(* C6.  Within one call_with_dependencies call every provider reachable    *)
(* from the handler's parameters is invoked exactly once, however many     *)
(* parameters (at any depth) depend on it, and all of them receive the     *)
(* same value.                                                             *)
(***************************************************************************)
\* the providers the parameters of fn ask for (a parameter bound from the
\* context asks for none)
DepsOf(fn) ==
    {get_signature(fn)[i].dep : i \in {j \in 1..Len(get_signature(fn)) :
        get_signature(fn)[j].dep # NoDep /\ ~InContext(get_signature(fn)[j].name)}}

RECURSIVE ReachFrom(_, _)
ReachFrom(S, n) ==
    IF n = 0 THEN S ELSE ReachFrom(S \cup UNION {DepsOf(p) : p \in S}, n - 1)

Reachable == ReachFrom(DepsOf("handler"), Cardinality(Providers))

HandlerInvoked == "handler" \in DOMAIN bound

\* every dependent parameter of an invoked callable holds the cached value
SharedValue(fn) ==
    \A i \in 1..Len(get_signature(fn)) :
        LET prm == get_signature(fn)[i]
        IN  (prm.dep # NoDep /\ ~InContext(prm.name)) =>
                /\ prm.name \in DOMAIN bound[fn]
                /\ prm.dep \in DOMAIN cache
                /\ bound[fn][prm.name] = cache[prm.dep]

C6_ProviderOncePerCall ==
    /\ \A p \in Providers : calls[p] <= 1
    /\ \A fn \in DOMAIN bound : SharedValue(fn)
    /\ HandlerInvoked =>
            \A p \in Providers : calls[p] = IF p \in Reachable THEN 1 ELSE 0

C6_Witness ==
    /\ HandlerInvoked
    /\ Cardinality({i \in 1..Len(handler.sig) :
            handler.sig[i].dep = "get_conn" /\ ~InContext(handler.sig[i].name)}) = 2
    /\ "get_session" \in DOMAIN bound
    /\ calls["get_conn"] = 1
    /\ calls["get_settings"] = 1

(***************************************************************************)
(* C7.  The scoped resources acquired during one call are all released     *)
(* when the call exits, never before the handler has finished, in strict   *)
(* reverse order of acquisition, whether the handler returns or the        *)
(* handler or a later provider raises.                                     *)
(***************************************************************************)
Reverse(sq) == [i \in 1..Len(sq) |-> sq[Len(sq) + 1 - i]]

C7_ReleasedInReverseAtExit ==
    /\ released # <<>> => pc \in {"exiting", "exited"}
    /\ Len(released) <= Len(acquired)
    /\ released = SubSeq(Reverse(acquired), 1, Len(released))
    /\ pc = "exited" => released = Reverse(acquired)
    /\ pc \in {"resolving", "running"} => exit_stack = acquired

C7_Witness ==
    /\ pc = "exited"
    /\ HandlerInvoked
    /\ outcome.tag = "raise"
    /\ outcome.err = Exc("ValueError")
    /\ acquired = <<"get_conn", "get_session">>
    /\ released = <<"get_session", "get_conn">>

(***************************************************************************)
(* nats.py: the callback NatsMediator subscribes for one Subscriber        *)
(* (wrap_callback), and run_callback / get_message under it.               *)
(***************************************************************************)
\* sanitize_dict: the entries whose value is None are dropped, in nested
\* dicts too
RECURSIVE sanitize_dict(_)
sanitize_dict(obj) ==
    DictV([k \in {k \in DOMAIN obj.d : obj.d[k] # Null} |->
            IF obj.d[k].kind = "dict" THEN sanitize_dict(obj.d[k]) ELSE obj.d[k]])

\* Error.serialize()
RECURSIVE serialize(_)
serialize(err) ==
    sanitize_dict(DictV(
        [code |-> Text(err.code),
         field |-> IF err.field = NoField THEN Null ELSE Text(err.field),
         detail |-> Text("detail of " \o err.code),
         debug |-> err.debug,
         hints |-> err.hints,
         errors |-> ListV([j \in 1..Len(err.errors) |-> serialize(err.errors[j])])]))

\* str(exc): the text the exception was raised with
ExcMessage(exc) ==
    IF "text" \in DOMAIN exc THEN Text(exc.text) ELSE Text("message of " \o exc.name)

\* InternalError.from_exception(exc, extra): {**extra, "message": str(exc)}
from_exception(exc, extra) == InternalError(DictV(("message" :> ExcMessage(exc)) @@ extra))

NoExtra == [k \in {} |-> Null]

\* what json.dumps accepts
RECURSIVE JsonSerializable(_)
JsonSerializable(v) ==
    CASE v.kind \in {"null", "int", "bool", "str", "float"} -> TRUE
      [] v.kind = "list" -> \A j \in 1..Len(v.items) : JsonSerializable(v.items[j])
      [] v.kind = "dict" -> \A k \in DOMAIN v.d : JsonSerializable(v.d[k])
      [] OTHER -> FALSE

\* isinstance(res, _Ok) / isinstance(res, _Fail), of any object
IsOkResult(res) == "tag" \in DOMAIN res /\ res.tag = "ok"
IsFailResult(res) == "tag" \in DOMAIN res /\ res.tag = "fail"

\* the except clauses of run_callback, applied to an exception raised in
\* its try block
Caught(exc) ==
    IF exc.kind = "error" THEN Fail(exc)
    ELSE Fail(from_exception(exc, [subject |-> Get(raw_msg.d, "name"), message |-> raw_msg]))

\* the callback printed an InternalError and returned
Printed(exc) ==
    /\ printed' = Append(printed, from_exception(exc, NoExtra))
    /\ wpc' = "done"

\* NATS hands one delivery to the callback
Deliver(data) ==
    /\ wpc = "subscribed"
    /\ delivered' = data
    /\ wpc' = "received"
    /\ UNCHANGED <<subscriber, raw_msg, result, responded, acked, naked, printed>>
    /\ UNCHANGED depVars

\* json.loads(msg.data.decode("utf-8"))
Decode ==
    /\ wpc = "received"
    /\ IF delivered.kind = "json"
       THEN raw_msg' = delivered.doc /\ wpc' = "decoded" /\ UNCHANGED printed
       ELSE Printed(Exc("JSONDecodeError")) /\ UNCHANGED raw_msg
    /\ UNCHANGED <<subscriber, delivered, result, responded, acked, naked>>
    /\ UNCHANGED depVars

\* run_callback, first line: message.get("name") of a decoded document that
\* is no mapping raises outside the try block
TopicLookupRaises ==
    /\ wpc = "decoded"
    /\ raw_msg.kind # "dict"
    /\ Printed(Exc("AttributeError"))
    /\ UNCHANGED <<subscriber, delivered, raw_msg, result, responded, acked, naked>>
    /\ UNCHANGED depVars

\* a get_message that hands on the error of create as it is
MessageRejected_unwrapped ==
    /\ wpc = "decoded"
    /\ raw_msg.kind = "dict"
    /\ LET res == ObjectCreate(subscriber.msg_type, raw_msg)
       IN  /\ ~is_ok(res)
           /\ result' = Caught(res.err)
    /\ wpc' = "resulted"
    /\ UNCHANGED <<subscriber, delivered, raw_msg, responded, acked, naked, printed>>
    /\ UNCHANGED depVars

\* get_message: cls.create(raw=message) fails (ValidationFailed is raised
\* and caught) or raises (the exception is caught)
MessageRejected ==
    /\ wpc = "decoded"
    /\ raw_msg.kind = "dict"
    /\ LET res == ObjectCreate(subscriber.msg_type, raw_msg)
       IN  /\ ~is_ok(res)
           /\ result' = IF is_fail(res) THEN Caught(ValidationFailed(res.err.errors))
                        ELSE Caught(res.err)
    /\ wpc' = "resulted"
    /\ UNCHANGED <<subscriber, delivered, raw_msg, responded, acked, naked, printed>>
    /\ UNCHANGED depVars

\* get_message returns the message: call_with_dependencies(callback,
\* {msg_arg: msg}) starts
MessageAccepted ==
    /\ wpc = "decoded"
    /\ raw_msg.kind = "dict"
    /\ LET res == ObjectCreate(subscriber.msg_type, raw_msg)
       IN  /\ is_ok(res)
           /\ StartCall(subscriber.callback, subscriber.msg_arg :> res.value)
    /\ wpc' = "calling"
    /\ UNCHANGED <<subscriber, delivered, raw_msg, result, responded, acked, naked, printed>>

\* run_callback returns what the call returned, or the Fail its except
\* clauses make of what the call raised
RunCallbackReturns ==
    /\ wpc = "calling"
    /\ pc = "exited"
    /\ result' = IF outcome.tag = "returned" THEN outcome.value ELSE Caught(outcome.err)
    /\ wpc' = "resulted"
    /\ UNCHANGED <<subscriber, delivered, raw_msg, responded, acked, naked, printed>>
    /\ UNCHANGED depVars

\* an envelope that never carries the error
Envelope_no_error(res) ==
    DictV([data |-> IF IsOkResult(res) THEN res.value ELSE Null,
           error |-> Null])

\* the reply envelope
Envelope(res) ==
    DictV([data |-> IF IsOkResult(res) THEN res.value ELSE Null,
           error |-> IF ~IsOkResult(res) THEN serialize(res.err) ELSE Null])

\* subscriber.will_reply: msg.respond(json.dumps(raw_response)); result.err
\* of an object that is no Result, and json.dumps of a value JSON has no
\* form for, raise
Respond ==
    /\ wpc = "resulted"
    /\ subscriber.will_reply
    /\ IF ~IsOkResult(result) /\ ~IsFailResult(result)
       THEN Printed(Exc("AttributeError")) /\ UNCHANGED responded
       ELSE IF ~JsonSerializable(Envelope(result))
       THEN Printed(Exc("TypeError")) /\ UNCHANGED responded
       ELSE responded' = Append(responded, Envelope(result)) /\ wpc' = "done"
                /\ UNCHANGED printed
    /\ UNCHANGED <<subscriber, delivered, raw_msg, result, acked, naked>>
    /\ UNCHANGED depVars

\* subscriber.js_stream is not None: ack an Ok, nak(delay=5) anything else
Settle ==
    /\ wpc = "resulted"
    /\ ~subscriber.will_reply
    /\ subscriber.js_stream # Null
    /\ IF IsOkResult(result)
       THEN acked' = acked + 1 /\ UNCHANGED naked
       ELSE naked' = Append(naked, 5) /\ UNCHANGED acked
    /\ wpc' = "done"
    /\ UNCHANGED <<subscriber, delivered, raw_msg, result, responded, printed>>
    /\ UNCHANGED depVars

\* neither: the result is dropped
Drop ==
    /\ wpc = "resulted"
    /\ ~subscriber.will_reply
    /\ subscriber.js_stream = Null
    /\ wpc' = "done"
    /\ UNCHANGED <<subscriber, delivered, raw_msg, result, responded, acked, naked, printed>>
    /\ UNCHANGED depVars

(***************************************************************************)
(* One delivery to a subscribed callback.                                  *)
(***************************************************************************)
UserGetTopic == StrV(<<"u", "s", "e", "r", ".", "g", "e", "t">>)

UserGetRequest(payload) ==
    MkDict([name |-> UserGetTopic, source |-> StrV(<<"a", "p", "i">>), payload |-> payload])

Garbage == [kind |-> "garbage"]
Json(doc) == [kind |-> "json", doc |-> doc]

Deliveries ==
    {Garbage, Json(ListV(<<>>)), Json(UserGetRequest(GoodUser)),
     Json(UserGetRequest(BadUser)), Json(UserGetRequest(Absent))}

\* the callbacks a service registers: the message first, then dependencies
CallbackSigs == {sig \in HandlerSigs : Len(sig) >= 1 /\ sig[1].name = "msg"}

\* Service.reply / Service.on: reply-mode, stream-bound, or neither
Subscribers ==
    {[topic |-> "user.get", msg_arg |-> "msg", queued |-> m.queued,
      will_reply |-> m.will_reply, service_name |-> "users", msg_type |-> c,
      js_stream |-> m.js_stream, callback |-> sig] :
        m \in {[queued |-> TRUE, will_reply |-> TRUE, js_stream |-> Null],
               [queued |-> TRUE, will_reply |-> FALSE, js_stream |-> Text("USERS")],
               [queued |-> FALSE, will_reply |-> FALSE, js_stream |-> Null]},
        c \in {"UserGet", "UserGetKw"},
        sig \in CallbackSigs}

InitDispatch ==
    /\ subscriber \in Subscribers
    /\ wpc = "subscribed"
    /\ delivered = [kind |-> "none"]
    /\ raw_msg = Null
    /\ result = NotRun
    /\ responded = <<>>
    /\ acked = 0
    /\ naked = <<>>
    /\ printed = <<>>
    /\ IdleDeps
    /\ IdleCombine
    /\ IdleCreate
    /\ IdleAux

Delivery == \E data \in Deliveries : Deliver(data)

\* a step of the callback touches neither combine's nor create's state
OutsideCallback == UNCHANGED <<combineVars, createVars, auxVars>>

NextDispatch ==
    \/ Delivery /\ OutsideCallback
    \/ Decode /\ OutsideCallback
    \/ TopicLookupRaises /\ OutsideCallback
    \/ MessageRejected /\ OutsideCallback
    \/ MessageAccepted /\ OutsideCallback
    \/ BindFromContext /\ OutsideCall
    \/ ResolveCached /\ OutsideCall
    \/ EnterDependency /\ OutsideCall
    \/ BindDefault /\ OutsideCall
    \/ Unresolvable /\ OutsideCall
    \/ ProviderReturns /\ OutsideCall
    \/ ProviderRaises /\ OutsideCall
    \/ InvokeHandler /\ OutsideCall
    \/ HandlerReturns /\ OutsideCall
    \/ HandlerRaises /\ OutsideCall
    \/ Release /\ OutsideCall
    \/ ExitScope /\ OutsideCall
    \/ RunCallbackReturns /\ OutsideCallback
    \/ Respond /\ OutsideCallback
    \/ Settle /\ OutsideCallback
    \/ Drop /\ OutsideCallback

SpecDispatch == InitDispatch /\ [][NextDispatch]_vars

(***************************************************************************)
(* C4.  End to end, for a reply-mode subscriber on user.get whose payload  *)
(* has an ID field: a delivery with a well-formed id is answered by an     *)
(* envelope with non-null data (unless the handler's own call ended        *)
(* otherwise than by returning a non-null value); a delivery with a        *)
(* malformed id is answered by an envelope whose error is non-null with    *)
(* code "validation_failed".                                               *)
(***************************************************************************)
IsUserGetRequest ==
    /\ delivered.kind = "json"
    /\ delivered.doc.kind = "dict"
    /\ "payload" \in DOMAIN delivered.doc.d
    /\ "id" \in DOMAIN delivered.doc.d["payload"].d

RequestedId == delivered.doc.d["payload"].d["id"]

HandlerAnswered == outcome = [tag |-> "returned", value |-> Ok(IntV(1)), err |-> Null]

C4_UserGetReply ==
    (wpc = "done" /\ subscriber.will_reply /\ IsUserGetRequest) =>
        IF WellFormedId(RequestedId)
        THEN (pc = "idle" \/ HandlerAnswered) =>
                /\ Len(responded) = 1
                /\ responded[1].d["data"] # Null
        ELSE /\ Len(responded) = 1
             /\ responded[1].d["error"] # Null
             /\ responded[1].d["error"].d["code"] = Text("validation_failed")

(***************************************************************************)
(* C8.  When the handler raises after two scoped resources were acquired,  *)
(* both are released in reverse acquisition order, and the call returns a  *)
(* Fail reflecting the thrown error: it does not raise.                    *)
(***************************************************************************)
HandlerRaised == HandlerInvoked /\ retval = NotRun /\ pc \in {"exiting", "exited"}

RaisedAfterTwo == pc = "exited" /\ HandlerRaised /\ Len(acquired) = 2

C8_CallReturnsFail ==
    RaisedAfterTwo =>
        /\ released = Reverse(acquired)
        /\ outcome.tag = "returned"
        /\ IsFailResult(outcome.value)

(***************************************************************************)
(* C8, as the code has it.  When the handler raises after two scoped       *)
(* resources were acquired, both are released in reverse acquisition order *)
(* and call_with_dependencies re-raises: the handler's exception, or the   *)
(* one a release raised in its place.  The Fail is run_callback's: it      *)
(* returns Fail of the raised Error itself, or of an InternalError whose   *)
(* debug message is the exception's text.                                  *)
(***************************************************************************)
C8_ReleasedThenReraised ==
    RaisedAfterTwo =>
        /\ released = Reverse(acquired)
        /\ outcome.tag = "raise"
        /\ outcome.err \in HandlerExceptions \cup {Exc("CleanupError")}
        /\ wpc \in {"resulted", "done"} =>
                /\ IsFailResult(result)
                /\ IF outcome.err.kind = "error" THEN result.err = outcome.err
                   ELSE /\ result.err.code = "internal_error"
                        /\ result.err.debug.d["message"] = ExcMessage(outcome.err)

C8_Witness ==
    /\ RaisedAfterTwo
    /\ acquired = <<"get_conn", "get_session">>
    /\ released = <<"get_session", "get_conn">>
    /\ outcome = Raised(Exc("ValueError"))
    /\ wpc = "resulted"
    /\ IsFailResult(result)
    /\ result.err.code = "internal_error"

(***************************************************************************)
(* C9.  For a reply-mode subscriber every delivery results in exactly one  *)
(* reply envelope, whatever the delivery's bytes and whatever the handler  *)
(* returns or raises, and neither ack nor nak is issued for it.            *)
(***************************************************************************)
C9_ExactlyOneReply ==
    (wpc = "done" /\ subscriber.will_reply) =>
        /\ Len(responded) = 1
        /\ acked = 0
        /\ naked = <<>>

StreamBound == ~subscriber.will_reply /\ subscriber.js_stream # Null

C11_ExactlyOneAckOrNak ==
    (wpc = "done" /\ StreamBound) =>
        /\ acked + Len(naked) = 1
        /\ IsOkResult(result) => acked = 1
        /\ IsFailResult(result) => naked = <<5>>
        /\ responded = <<>>

(***************************************************************************)
(* infras/mediator/utils.py: is_subscribed(subscriber, message), the topic *)
(* matcher (the source keeps it commented out).  Topics are strings; the   *)
(* tokens come from split(".").                                            *)
(***************************************************************************)
\* value.split("."): a string without a dot is one token
RECURSIVE SplitDot(_)
SplitDot(s) ==
    IF \E k \in 1..Len(s) : s[k] = "."
    THEN LET k == CHOOSE k \in 1..Len(s) : s[k] = "." /\ \A m \in 1..(k - 1) : s[m] # "."
         IN  <<SubSeq(s, 1, k - 1)>> \o SplitDot(SubSeq(s, k + 1, Len(s)))
    ELSE <<s>>

\* topic.split(".") if topic else []
TopicTokens(topic) == IF topic = Null \/ topic.s = <<>> THEN <<>> ELSE SplitDot(topic.s)

\* message.get("topic") of a raw message
TopicOf(message) == Get(message.d, "topic")

\* the second loop: the subject is used up, pattern tokens remain
RECURSIVE RemainingPattern(_, _)
RemainingPattern(p, j) ==
    IF j < Len(p)
    THEN IF p[j + 1] = <<">">> THEN TRUE
         ELSE IF p[j + 1] # <<"*">> THEN FALSE
         ELSE RemainingPattern(p, j + 1)
    ELSE TRUE

\* the first loop and what follows it; i and j count from 0 as in the source
RECURSIVE ScanTokens(_, _, _, _)
ScanTokens(s, p, i, j) ==
    IF i < Len(s) /\ j < Len(p)
    THEN IF j + 1 < Len(p) /\ p[j + 2] = <<">">>
         THEN IF p[j + 1] # <<"*">> /\ p[j + 1] # s[i + 1] THEN FALSE
              ELSE ScanTokens(s, p, i + 1, j + 2)
         ELSE IF p[j + 1] = <<">">> THEN TRUE
         ELSE IF p[j + 1] = <<"*">> THEN ScanTokens(s, p, i + 1, j + 1)
         ELSE IF p[j + 1] # s[i + 1] THEN FALSE
         ELSE ScanTokens(s, p, i + 1, j + 1)
    ELSE IF i = Len(s) THEN RemainingPattern(p, j)
    ELSE j < Len(p) /\ p[j + 1] = <<">">>

is_subscribed(subscriber_topic, message) ==
    ScanTokens(TopicTokens(TopicOf(message)), TopicTokens(subscriber_topic), 0, 0)

(***************************************************************************)
(* is_subscribed applied to bounded patterns and messages.                 *)
(***************************************************************************)
\* ".".join(tokens)
RECURSIVE JoinDot(_)
JoinDot(tokens) ==
    IF tokens = <<>> THEN <<>>
    ELSE IF Len(tokens) = 1 THEN tokens[1]
    ELSE tokens[1] \o <<".">> \o JoinDot(Tail(tokens))

SubjectTokens == {<<"a">>, <<"b">>, <<>>}
PatternTokens == {<<"a">>, <<"*">>, <<">">>, <<>>}

Patterns == {StrV(JoinDot(ts)) : ts \in SeqsUpTo(PatternTokens, MaxTokens)}

MatchMessages ==
    {DictV([topic |-> StrV(JoinDot(ts))]) : ts \in SeqsUpTo(SubjectTokens, MaxTokens + 1)}
        \cup {DictV([name |-> StrV(<<"a">>)])}

OutsideMatch ==
    UNCHANGED <<combineVars, createVars, depVars, dispatchVars, registerVars,
                equalityVars, requestVars, concurrentVars, scopeVars, mediatorVars,
                repoVars, tokenVars>>

InitMatch ==
    /\ match_pattern \in Patterns
    /\ match_message \in MatchMessages
    /\ matched = NotRun
    /\ IdleCombine
    /\ IdleCreate
    /\ IdleDeps
    /\ IdleDispatch
    /\ IdleRegister
    /\ IdleEquality
    /\ IdleRequest
    /\ IdleConcurrent
    /\ IdleScope
    /\ IdleMediator
    /\ IdleRepo
    /\ IdleToken

IsSubscribed ==
    /\ matched = NotRun
    /\ matched' = BoolV(is_subscribed(match_pattern, match_message))
    /\ UNCHANGED <<match_pattern, match_message>>
    /\ OutsideMatch

NextMatch == IsSubscribed

SpecMatch == InitMatch /\ [][NextMatch]_vars

(***************************************************************************)
(* C12.  is_subscribed returns true exactly when the subject matches the   *)
(* pattern token by token: `*` matches exactly one token, a trailing `>`   *)
(* matches one or more remaining tokens, any other token only itself.      *)
(***************************************************************************)
RECURSIVE TokenwiseMatch(_, _)
TokenwiseMatch(p, s) ==
    IF p = <<>> THEN s = <<>>
    ELSE IF p[1] = <<">">> THEN Len(p) = 1 /\ Len(s) >= 1
    ELSE /\ s # <<>>
         /\ p[1] = <<"*">> \/ p[1] = s[1]
         /\ TokenwiseMatch(Tail(p), Tail(s))

\* a subject of non-empty tokens; a pattern of non-empty tokens whose `>`,
\* if any, is the last
WellFormedTopics ==
    LET p == TopicTokens(match_pattern)
        s == TopicTokens(TopicOf(match_message))
    IN  /\ p # <<>> /\ s # <<>>
        /\ \A k \in 1..Len(p) : p[k] # <<>> /\ (p[k] = <<">">> => k = Len(p))
        /\ \A k \in 1..Len(s) : s[k] # <<>>

C12_TopicMatching ==
    (matched # NotRun /\ WellFormedTopics) =>
        matched.b = TokenwiseMatch(TopicTokens(match_pattern),
                                   TopicTokens(TopicOf(match_message)))

(***************************************************************************)
(* C13.  If materializing the raw message into the subscriber's message    *)
(* type fails, run_callback returns Fail with a ValidationFailed error     *)
(* (code "validation_failed") carrying the aggregated sub-errors, and      *)
(* neither the handler nor any dependency provider is invoked.             *)
(***************************************************************************)
RunCallbackReturned == wpc \in {"resulted", "done"}

Materialized == ObjectCreate(subscriber.msg_type, raw_msg)

MaterializationFailed == raw_msg.kind = "dict" /\ is_fail(Materialized)

C13_ValidationFailedNoHandler ==
    (RunCallbackReturned /\ MaterializationFailed) =>
        /\ IsFailResult(result)
        /\ result.err.code = "validation_failed"
        /\ result.err.errors = Materialized.err.errors
        /\ result.err.errors # <<>>
        /\ pc = "idle"
        /\ bound = <<>>
        /\ \A p \in Providers : calls[p] = 0

C13_Witness ==
    /\ RunCallbackReturned
    /\ MaterializationFailed
    /\ Len(subscriber.callback) > 1
    /\ result.err.code = "validation_failed"
    /\ Len(result.err.errors) = 1
    /\ result.err.errors[1].code = "invalid_field"

(***************************************************************************)
(* C14.  run_callback never lets a handler exception escape: a domain      *)
(* Error raised by the handler becomes Fail with that same error, and any  *)
(* other exception becomes Fail(InternalError) whose debug context carries *)
(* both the offending topic and the raw inbound message.                   *)
(***************************************************************************)
\* the handler raised and its exception is the one that left the call
HandlerExceptionLeft ==
    /\ HandlerRaised
    /\ pc = "exited"
    /\ outcome.tag = "raise"
    /\ outcome.err \in HandlerExceptions

C14_HandlerExceptionWrapped ==
    (RunCallbackReturned /\ HandlerExceptionLeft) =>
        /\ IsFailResult(result)
        /\ IF outcome.err.kind = "error" THEN result.err = outcome.err
           ELSE /\ result.err.code = "internal_error"
                /\ \E k \in DOMAIN result.err.debug.d :
                        result.err.debug.d[k] = Get(raw_msg.d, "name")
                /\ \E k \in DOMAIN result.err.debug.d :
                        result.err.debug.d[k] = raw_msg

(***************************************************************************)
(* Service registration (domain/messaging.py, application/types.py).       *)
(***************************************************************************)
\* the decorator returned the callback
Returned == [kind |-> "returned"]

\* the classes issubclass(_, Message) accepts
MessageClasses == {"Message", "UserGet", "UserGetKw"}

\* a first parameter is annotated with a Message class, another class,
\* nothing (inspect.Parameter.empty, a class), or a string, which is not a class
NotAClass == "'UserGet'"

\* the callables handed to the decorators: signature and async-ness
RegisteredCallbacks ==
    {[params |-> ps, coroutine |-> c] :
        ps \in {<<>>,
                <<[name |-> "msg", annotation |-> "UserGet"]>>,
                <<[name |-> "event", annotation |-> "UserGetKw"],
                  [name |-> "conn", annotation |-> "_empty"]>>,
                <<[name |-> "n", annotation |-> "int"]>>,
                <<[name |-> "msg", annotation |-> "_empty"]>>,
                <<[name |-> "msg", annotation |-> NotAClass]>>},
        c \in BOOLEAN}

\* Service._add without the iscoroutinefunction test
_add_any_callable(subs, name, topic, will_reply, queued, callback, js_stream) ==
    IF callback.params = <<>> THEN [subscribers |-> subs, outcome |-> Exc("IndexError")]
    ELSE LET first_arg == callback.params[1] IN
         IF first_arg.annotation = NotAClass
         THEN [subscribers |-> subs, outcome |-> Exc("TypeError")]
         ELSE IF first_arg.annotation \notin MessageClasses
         THEN [subscribers |-> subs, outcome |-> Exc("TypeError")]
         ELSE [subscribers |->
                  Append(subs, [topic |-> topic, queued |-> queued,
                                callback |-> callback, js_stream |-> js_stream,
                                will_reply |-> will_reply, msg_arg |-> first_arg.name,
                                service_name |-> name,
                                msg_type |-> first_arg.annotation]),
               outcome |-> Returned]

\* Service._add: the list and the outcome of the call
_add(subs, name, topic, will_reply, queued, callback, js_stream) ==
    \* list(signature(callback).parameters.values())[0]
    IF callback.params = <<>> THEN [subscribers |-> subs, outcome |-> Exc("IndexError")]
    ELSE LET first_arg == callback.params[1] IN
         \* issubclass(annotation, Message) raises TypeError on a non-class
         IF first_arg.annotation = NotAClass
         THEN [subscribers |-> subs, outcome |-> Exc("TypeError")]
         ELSE IF first_arg.annotation \notin MessageClasses \/ ~callback.coroutine
         THEN [subscribers |-> subs, outcome |-> Exc("TypeError")]
         ELSE [subscribers |->
                  Append(subs, [topic |-> topic, queued |-> queued,
                                callback |-> callback, js_stream |-> js_stream,
                                will_reply |-> will_reply, msg_arg |-> first_arg.name,
                                service_name |-> name,
                                msg_type |-> first_arg.annotation]),
               outcome |-> Returned]

ServiceName == "users"

\* @service.on(topic, queued, stream) applied to a callback
On(topic, queued, stream, callback) ==
    /\ Len(service_subscribers) < MaxSubscribers
    /\ LET r == _add(service_subscribers, ServiceName, topic, FALSE, queued, callback, stream) IN
        /\ service_subscribers' = r.subscribers
        /\ registration' = [via |-> "on", topic |-> topic, queued |-> queued,
                            stream |-> stream, callback |-> callback,
                            outcome |-> r.outcome]

\* @service.reply(topic) applied to a callback
Reply(topic, callback) ==
    /\ Len(service_subscribers) < MaxSubscribers
    /\ LET r == _add(service_subscribers, ServiceName, topic, TRUE, TRUE, callback, Null) IN
        /\ service_subscribers' = r.subscribers
        /\ registration' = [via |-> "reply", topic |-> topic, queued |-> TRUE,
                            stream |-> Null, callback |-> callback,
                            outcome |-> r.outcome]

OnArguments ==
    {[topic |-> "user.made", queued |-> FALSE, stream |-> Null],
     [topic |-> "user.made", queued |-> TRUE, stream |-> Text("USERS")],
     [topic |-> "user.get", queued |-> TRUE, stream |-> Null]}

OutsideRegister ==
    UNCHANGED <<combineVars, createVars, depVars, dispatchVars, matchVars, equalityVars,
                requestVars, concurrentVars, scopeVars, mediatorVars, repoVars,
                tokenVars>>

InitRegister ==
    /\ IdleRegister
    /\ IdleCombine
    /\ IdleCreate
    /\ IdleDeps
    /\ IdleDispatch
    /\ IdleMatch
    /\ IdleEquality
    /\ IdleRequest
    /\ IdleConcurrent
    /\ IdleScope
    /\ IdleMediator
    /\ IdleRepo
    /\ IdleToken

RegisterOn ==
    \E a \in OnArguments, callback \in RegisteredCallbacks :
        On(a.topic, a.queued, a.stream, callback)

RegisterReply ==
    \E callback \in RegisteredCallbacks : Reply("user.get", callback)

NextRegister ==
    \/ RegisterOn /\ OutsideRegister
    \/ RegisterReply /\ OutsideRegister

SpecRegister == InitRegister /\ [][NextRegister]_vars

(***************************************************************************)
(* C15.  Registration is eager and all-or-nothing: a handler that is not a *)
(* coroutine, or whose first parameter's type is not a subtype of Message, *)
(* fails the registration at once and leaves the subscriber list as it     *)
(* was; a valid handler appends exactly one Subscriber at the end, the     *)
(* earlier entries unchanged and in order.                                 *)
(***************************************************************************)
ValidHandler(callback) ==
    /\ callback.coroutine
    /\ callback.params # <<>>
    /\ callback.params[1].annotation \in MessageClasses

C15_RegistrationAllOrNothing ==
    [][<<service_subscribers, registration>>' # <<service_subscribers, registration>> =>
        LET reg == registration' IN
        IF ValidHandler(reg.callback)
        THEN /\ reg.outcome = Returned
             /\ Len(service_subscribers') = Len(service_subscribers) + 1
             /\ SubSeq(service_subscribers', 1, Len(service_subscribers)) = service_subscribers
             /\ LET sub == service_subscribers'[Len(service_subscribers')] IN
                    /\ sub.callback = reg.callback
                    /\ sub.topic = reg.topic
                    /\ sub.will_reply = (reg.via = "reply")
                    /\ sub.msg_type = reg.callback.params[1].annotation
        ELSE /\ reg.outcome \in {Exc("TypeError"), Exc("IndexError")}
             /\ service_subscribers' = service_subscribers]_vars

\* a rejected registration after an accepted one: the list still holds the one entry
C15_Witness ==
    /\ Len(service_subscribers) = 1
    /\ registration.outcome = Exc("TypeError")
    /\ ~registration.callback.coroutine
    /\ registration.callback.params # <<>>
    /\ registration.callback.params[1].annotation \in MessageClasses

(***************************************************************************)
(* Message equality (domain/messaging.py, domain/message.py).              *)
(***************************************************************************)
\* issubclass over the message classes: each derives from Message directly
IsSubclass(c, d) == c = d \/ d = "Message"

\* Object.serialize of an ID: the one field `value`, serialized
IdSerialize(id) == id.fields.value

\* hash(str): a function of the characters alone (CPython keys it per process)
HashChars == Digits \o <<"h", "k", "K">>
CharCode(ch) == CHOOSE i \in 1..Len(HashChars) : HashChars[i] = ch
HashModulus == 65521
RECURSIVE StrHash(_)
StrHash(s) ==
    IF s = <<>> THEN 0
    ELSE (StrHash(SubSeq(s, 1, Len(s) - 1)) * 31 + CharCode(s[Len(s)])) % HashModulus

\* Message.__hash__
__hash__(self) == StrHash(IdSerialize(self.fields.id).s)

\* the equality attrs would generate without eq=False: field by field
__eq__fieldwise(self, other) ==
    IF ~IsSubclass(other.cls, self.cls) THEN FALSE
    ELSE other.fields = self.fields

\* Message.__eq__
__eq__(self, other) ==
    IF ~IsSubclass(other.cls, self.cls) THEN FALSE
    ELSE __hash__(other) = __hash__(self)

\* a == b: the right operand's method goes first when its class is a proper
\* subclass of the left operand's; __eq__ never returns NotImplemented
PyEquals(a, b) ==
    IF a.cls # b.cls /\ IsSubclass(b.cls, a.cls) THEN __eq__(b, a) ELSE __eq__(a, b)

MessageIds == {ObjV("ID", [value |-> StrV(v)]) : v \in {ValidId, UpperId, NewUlid}}

MessageInstances ==
    {ObjV(c, [id |-> id, name |-> Text(n), source |-> Text("test")]) :
        c \in MessageClasses, id \in MessageIds, n \in {"user.get", "user.made"}}

OutsideEquality ==
    UNCHANGED <<combineVars, createVars, depVars, dispatchVars, matchVars, registerVars,
                requestVars, concurrentVars, scopeVars, mediatorVars, repoVars,
                tokenVars>>

InitEquality ==
    /\ eq_left \in MessageInstances
    /\ eq_right \in MessageInstances
    /\ eq_result = NotRun
    /\ eq_swapped = NotRun
    /\ IdleCombine
    /\ IdleCreate
    /\ IdleDeps
    /\ IdleDispatch
    /\ IdleMatch
    /\ IdleRegister
    /\ IdleRequest
    /\ IdleConcurrent
    /\ IdleScope
    /\ IdleMediator
    /\ IdleRepo
    /\ IdleToken

\* eq_left == eq_right
Equals ==
    /\ eq_result = NotRun
    /\ eq_result' = BoolV(PyEquals(eq_left, eq_right))
    /\ UNCHANGED <<eq_left, eq_right, eq_swapped>>

\* eq_right == eq_left
EqualsSwapped ==
    /\ eq_swapped = NotRun
    /\ eq_swapped' = BoolV(PyEquals(eq_right, eq_left))
    /\ UNCHANGED <<eq_left, eq_right, eq_result>>

NextEquality ==
    \/ Equals /\ OutsideEquality
    \/ EqualsSwapped /\ OutsideEquality

SpecEquality == InitEquality /\ [][NextEquality]_vars

(***************************************************************************)
(* C16.  Two Message instances are equal if and only if they have the same *)
(* id, whatever their other fields, and the relation is symmetric.         *)
(***************************************************************************)
SameId == eq_left.fields.id = eq_right.fields.id

C16_EqualIffSameId ==
    /\ eq_result # NotRun => eq_result = BoolV(SameId)
    /\ (eq_result # NotRun /\ eq_swapped # NotRun) => eq_result = eq_swapped

\* C16 as the code has it: equal if and only if both are of the same class
\* and have the same id, whatever their other fields; the relation is symmetric
C16_EqualIffSameClassAndId ==
    /\ eq_result # NotRun => eq_result = BoolV(eq_left.cls = eq_right.cls /\ SameId)
    /\ (eq_result # NotRun /\ eq_swapped # NotRun) => eq_result = eq_swapped

\* same class, same id, another name: equal both ways
C16_Witness ==
    /\ eq_result = BoolV(TRUE)
    /\ eq_swapped = BoolV(TRUE)
    /\ eq_left.cls = "UserGet"
    /\ eq_left.fields.name # eq_right.fields.name

(***************************************************************************)
(* NatsMediator.request (nats.py).                                         *)
(***************************************************************************)
ExcText(name, text) == [kind |-> "exc", name |-> name, text |-> text]

\* isinstance(e, TimeoutError)
IsTimeout(exc) == exc.name = "TimeoutError"

\* errors.py defines no Error.from_dict: the attribute lookup raises
FromDictRaises ==
    ExcText("AttributeError", "type object 'Error' has no attribute 'from_dict'")

\* the except clauses of request
RequestCaught(exc) ==
    IF IsTimeout(exc)
    THEN Fail(from_exception(exc, [message |-> Text("Request timed out")]))
    ELSE Fail(from_exception(exc, NoExtra))

\* json.loads(response.data.decode()) and what follows it
HandleReply(response) ==
    IF response.kind = "garbage" THEN RequestCaught(Exc("JSONDecodeError"))
    ELSE LET reply == response.doc IN
         \* raw_msg.get on a document that is no object
         IF reply.kind # "dict" THEN RequestCaught(Exc("AttributeError"))
         ELSE IF Get(reply.d, "error") # Null THEN RequestCaught(FromDictRaises)
         ELSE Ok(Get(reply.d, "data"))

\* what request returns once nc.request has replied or raised
AfterTransport(response) ==
    IF response.kind = "raise" THEN RequestCaught(response.exc)
    ELSE HandleReply(response)

Raises(exc) == [kind |-> "raise", exc |-> exc]

InvalidUser ==
    ValidationFailed(<<InvalidField("payload", NoHints, <<MissingField("id")>>)>>)

\* the replies a responder sends: the envelopes of its results, and bytes
\* that are no envelope
Replies ==
    {Json(Envelope(res)) :
        res \in {Ok(IntV(1)), Ok(Null), Ok(GoodUser), Fail(NotFound), Fail(InvalidUser)}}
    \cup {Garbage, Json(ListV(<<>>)), Json(DictV(<<>>))}

\* what nc.request raises: the text is the raiser's
TransportExceptions ==
    {ExcText(name, text) :
        name \in {"TimeoutError", "RuntimeError", "ConnectionClosedError"},
        text \in {"", "nats: timeout", "nats: connection closed"}}

TransportOutcomes == Replies \cup {Raises(exc) : exc \in TransportExceptions}

Requests ==
    {UserGetRequest(GoodUser), UserGetRequest(BadUser), UserGetRequest(Absent),
     UserGetRequest(EmptyDict), DictV([source |-> Text("api")])}

OutsideRequest ==
    UNCHANGED <<combineVars, createVars, depVars, dispatchVars, matchVars, registerVars,
                equalityVars, concurrentVars, scopeVars, mediatorVars, repoVars,
                tokenVars>>

InitRequest ==
    /\ req_pc = "idle"
    /\ req_msg \in Requests
    /\ req_response = [kind |-> "none"]
    /\ req_result = NotRun
    /\ IdleCombine
    /\ IdleCreate
    /\ IdleDeps
    /\ IdleDispatch
    /\ IdleMatch
    /\ IdleRegister
    /\ IdleEquality
    /\ IdleConcurrent
    /\ IdleScope
    /\ IdleMediator
    /\ IdleRepo
    /\ IdleToken

\* subject, payload = msg["name"], msg; nc.request(subject, json.dumps(payload))
SendRequest ==
    /\ req_pc = "idle"
    /\ IF "name" \in DOMAIN req_msg.d
       THEN req_pc' = "awaiting" /\ UNCHANGED req_result
       ELSE req_pc' = "returned" /\ req_result' = RequestCaught(Exc("KeyError"))
    /\ UNCHANGED <<req_msg, req_response>>

\* the responder's reply arrives within the five seconds
ReplyArrives ==
    /\ req_pc = "awaiting"
    /\ \E response \in Replies :
        req_response' = response
    /\ req_pc' = "replied"
    /\ UNCHANGED <<req_msg, req_result>>

\* no reply within the five seconds
RequestTimesOut ==
    /\ req_pc = "awaiting"
    /\ \E exc \in TransportExceptions :
        /\ IsTimeout(exc)
        /\ req_response' = Raises(exc)
    /\ req_pc' = "replied"
    /\ UNCHANGED <<req_msg, req_result>>

\* nc.request raises something else
TransportRaises ==
    /\ req_pc = "awaiting"
    /\ \E exc \in TransportExceptions :
        /\ ~IsTimeout(exc)
        /\ req_response' = Raises(exc)
    /\ req_pc' = "replied"
    /\ UNCHANGED <<req_msg, req_result>>

\* the rest of request: decode the reply, or the except clause
RequestReturns ==
    /\ req_pc = "replied"
    /\ req_result' = AfterTransport(req_response)
    /\ req_pc' = "returned"
    /\ UNCHANGED <<req_msg, req_response>>

NextRequest ==
    \/ SendRequest /\ OutsideRequest
    \/ ReplyArrives /\ OutsideRequest
    \/ RequestTimesOut /\ OutsideRequest
    \/ TransportRaises /\ OutsideRequest
    \/ RequestReturns /\ OutsideRequest

SpecRequest == InitRequest /\ [][NextRequest]_vars

(***************************************************************************)
(* C17.  request returns Ok(data) when the reply envelope's error is null; *)
(* when the envelope carries a remote-reported error it returns Fail whose *)
(* error is that remote error verbatim (same code, field, detail, hints    *)
(* and nested errors), not a locally generated error.                      *)
(***************************************************************************)
EnvelopeArrived ==
    /\ req_pc = "returned"
    /\ req_response.kind = "json"
    /\ req_response.doc.kind = "dict"

C17_RemoteErrorVerbatim ==
    EnvelopeArrived =>
        LET reply == req_response.doc.d IN
        IF Get(reply, "error") = Null
        THEN req_result = Ok(Get(reply, "data"))
        ELSE /\ is_fail(req_result)
             /\ serialize(req_result.err) = reply.error

(***************************************************************************)
(* C18.  When request times out, the Fail it returns carries a timeout     *)
(* error that its code or content tells apart from the Fail returned for   *)
(* any other failure of the request: a remote-reported error, a transport  *)
(* exception, a reply that does not decode.                                *)
(***************************************************************************)
TimedOut == req_pc = "returned" /\ req_response.kind = "raise" /\ IsTimeout(req_response.exc)

OtherFailures ==
    {t \in TransportOutcomes :
        /\ ~(t.kind = "raise" /\ IsTimeout(t.exc))
        /\ is_fail(AfterTransport(t))}

C18_TimeoutDistinguishable ==
    TimedOut =>
        /\ is_fail(req_result)
        /\ \A t \in OtherFailures : AfterTransport(t) # req_result

(***************************************************************************)
(* C19.  During resolution, whenever the context contains a parameter's    *)
(* name, the parameter is bound to the context value, whatever that value  *)
(* is, and neither its provider nor its default is used.                   *)
(***************************************************************************)
C19_ContextValueWins ==
    \A i \in 1..Len(frames) :
        \A name \in DOMAIN frames[i].kwargs :
            name \in DOMAIN context => frames[i].kwargs[name] = context[name]

(***************************************************************************)
(* C20.  If a parameter of the handler or of a provider is not in the      *)
(* context, is not a dependency and has no default, resolution aborts at   *)
(* once with an unresolvable-dependency error: the handler is never        *)
(* invoked and no provider belonging to a later parameter is invoked.      *)
(***************************************************************************)
\* resolution stands at a parameter nothing can supply
AtUnresolvable ==
    /\ AtParam
    /\ TopParam.name \notin DOMAIN context
    /\ TopParam.dep = NoDep
    /\ TopParam.default = Empty

Aborted == pc \in {"exiting", "exited"} /\ ~HandlerInvoked

C20_UnresolvableAborts ==
    [][/\ AtUnresolvable =>
            /\ pending' = Exc("TypeError")
            /\ frames' = <<>>
            /\ Aborted'
            /\ calls' = calls
       /\ Aborted => (Aborted' /\ calls' = calls)]_vars

\* the second of three parameters is unresolvable: the first one's provider
\* ran, the third one's never does
C20_Witness ==
    /\ pc = "exited"
    /\ outcome = Raised(Exc("TypeError"))
    /\ Len(handler.sig) = 3
    /\ handler.sig[1].dep = "get_conn"
    /\ handler.sig[2].name = "msg"
    /\ handler.sig[3].dep = "get_session"
    /\ "msg" \notin DOMAIN context
    /\ calls["get_conn"] = 1
    /\ calls["get_session"] = 0
    /\ ~HandlerInvoked

(***************************************************************************)
(* C21.  For a leaf type (no field schema, the single field `value`),      *)
(* Object.create wraps the normalized value prepare returned as the sole   *)
(* value field, for every kind of normalized value, mappings included: the *)
(* instance's value equals the normalized value.                           *)
(***************************************************************************)
LeafPrepared ==
    /\ created # NotRun
    /\ ~IsComposite(create_cls)
    /\ create_raw # Null
    /\ is_ok(Prepare(create_cls, create_raw))

C21_LeafWrapsNormalizedValue ==
    LeafPrepared =>
        /\ is_ok(created)
        /\ created.value = ObjV(create_cls, [value |-> Prepare(create_cls, create_raw).value])

(***************************************************************************)
(* C22.  For a field whose raw sub-value is null the outcome follows a     *)
(* fixed precedence: a declared default (a value, or a factory that does   *)
(* not depend on the instance) is used; otherwise an optional field        *)
(* succeeds with null; otherwise the field fails with MissingField tagged  *)
(* with the field's key.  A non-null raw sub-value is never replaced by    *)
(* the default.                                                            *)
(***************************************************************************)
\* the schema item and the raw sub-value of the i-th visited field
VisitedItem(i) == get_schema(create_cls).items[i]
RawSubValue(i) ==
    LET value == Prepare(create_cls, create_raw).value
    IN  IF value.kind = "dict" THEN Get(value.d, VisitedItem(i).key) ELSE value

UsableDefault(item) ==
    /\ item.default # NOTHING
    /\ item.default.kind = "Factory" => ~item.default.takes_self

C22_NullFieldPrecedence ==
    \A i \in 1..Len(field_results) :
        LET item == VisitedItem(i)
            res == field_results[i].res
        IN  IF RawSubValue(i) = Null
            THEN IF UsableDefault(item) THEN res = Ok(DefaultOf(item))
                 ELSE IF item.optional THEN res = Ok(Null)
                 ELSE res = Fail(MissingField(item.key))
            ELSE ~item.is_list => res = SchemaItem_create(item, RawSubValue(i), NoField)

\* a profile with nothing but falsy sub-values for age and nick: both kept
C22_Witness ==
    /\ create_cls = "Profile"
    /\ Len(field_results) = 8
    /\ create_raw.kind = "dict"
    /\ DOMAIN create_raw.d = {"age", "nick"}
    /\ create_raw.d.age = IntV(0)
    /\ field_results[1].res = Fail(MissingField("email"))
    /\ field_results[2].res = Ok(StrV(<<>>))
    /\ field_results[3].res = Ok(IntV(0))
    /\ field_results[4].res = Ok(Null)
    /\ field_results[5].res.tag = "ok"
    /\ field_results[6].res = Fail(MissingField("slug"))
    /\ field_results[7].res = Ok(Null)
    /\ field_results[8].res = Fail(MissingField("active"))

(***************************************************************************)
(* C23.  For a subscriber that is neither reply-mode nor stream-bound, a   *)
(* delivery never triggers ack, nak or a reply, and every delivery whose   *)
(* handler result is Fail is reported to the observability sink exactly    *)
(* once and is not retried by this layer.                                  *)
(***************************************************************************)
FireAndForget == ~subscriber.will_reply /\ subscriber.js_stream = Null

C23_FailureLoggedOnce ==
    FireAndForget =>
        /\ acked = 0
        /\ naked = <<>>
        /\ responded = <<>>
        /\ (wpc = "done" /\ IsFailResult(result)) => Len(printed) = 1

(***************************************************************************)
(* Two deliveries dispatched as interleaved tasks: each runs its own       *)
(* call_with_dependencies (utils/dep_injection.py); a step of one task may *)
(* come between any two steps of the other, at the awaits.                 *)
(***************************************************************************)
Tasks == {1, 2}

TaskSignature(t, fn) == IF fn = "handler" THEN tasks[t].sig ELSE ProviderSig(fn)
TaskTop(t) == tasks[t].frames[Len(tasks[t].frames)]
TaskTopParam(t) == TaskSignature(t, TaskTop(t).fn)[TaskTop(t).idx]
TaskAtParam(t) ==
    /\ tasks[t].pc = "resolving"
    /\ TaskTop(t).idx <= Len(TaskSignature(t, TaskTop(t).fn))
TaskAllBound(t) ==
    /\ tasks[t].pc = "resolving"
    /\ TaskTop(t).idx > Len(TaskSignature(t, TaskTop(t).fn))

\* context.get(param.name) is not None
TaskInContext(t, name) ==
    name \in DOMAIN tasks[t].context /\ tasks[t].context[name] # Null

\* one cache for every call: a module-level dict, or a mutable default argument
CacheOf_shared(t) ==
    LET others == {u \in Tasks : u # t}
        other == CHOOSE u \in others : TRUE
    IN  tasks[t].cache @@ tasks[other].cache

\* the cache resolve looks into: the cache={} its call made
CacheOf(t) == tasks[t].cache

TaskBind(t, value) ==
    [tasks[t].frames EXCEPT ![Len(tasks[t].frames)] =
        [@ EXCEPT !.kwargs = (TaskTopParam(t).name :> value) @@ @, !.idx = @ + 1]]

\* async with AsyncExitStack() as stack: resolve(fn, cache={}, ...)
TaskStart(t) ==
    /\ tasks[t].pc = "idle"
    /\ tasks' = [tasks EXCEPT ![t].pc = "resolving",
                              ![t].frames = <<[fn |-> "handler", idx |-> 1, kwargs |-> <<>>]>>]
    /\ UNCHANGED invocations

TaskBindFromContext(t) ==
    /\ TaskAtParam(t)
    /\ TaskInContext(t, TaskTopParam(t).name)
    /\ tasks' = [tasks EXCEPT ![t].frames = TaskBind(t, tasks[t].context[TaskTopParam(t).name])]
    /\ UNCHANGED invocations

\* if fn in cache: return cache[fn]
TaskResolveCached(t) ==
    /\ TaskAtParam(t)
    /\ ~TaskInContext(t, TaskTopParam(t).name)
    /\ TaskTopParam(t).dep # NoDep
    /\ TaskTopParam(t).dep \in DOMAIN CacheOf(t)
    /\ tasks' = [tasks EXCEPT ![t].frames = TaskBind(t, CacheOf(t)[TaskTopParam(t).dep])]
    /\ UNCHANGED invocations

TaskEnterDependency(t) ==
    /\ TaskAtParam(t)
    /\ ~TaskInContext(t, TaskTopParam(t).name)
    /\ TaskTopParam(t).dep # NoDep
    /\ TaskTopParam(t).dep \notin DOMAIN CacheOf(t)
    /\ tasks' = [tasks EXCEPT ![t].frames =
                    Append(@, [fn |-> TaskTopParam(t).dep, idx |-> 1, kwargs |-> <<>>])]
    /\ UNCHANGED invocations

TaskBindDefault(t) ==
    /\ TaskAtParam(t)
    /\ ~TaskInContext(t, TaskTopParam(t).name)
    /\ TaskTopParam(t).dep = NoDep
    /\ TaskTopParam(t).default # Empty
    /\ tasks' = [tasks EXCEPT ![t].frames = TaskBind(t, TaskTopParam(t).default)]
    /\ UNCHANGED invocations

TaskUnresolvable(t) ==
    /\ TaskAtParam(t)
    /\ ~TaskInContext(t, TaskTopParam(t).name)
    /\ TaskTopParam(t).dep = NoDep
    /\ TaskTopParam(t).default = Empty
    /\ tasks' = [tasks EXCEPT ![t].frames = <<>>, ![t].pending = Exc("TypeError"),
                              ![t].pc = "exiting"]
    /\ UNCHANGED invocations

\* fn(**kwargs) of a provider returns a new value; a scoped one is entered
\* through the task's exit stack; cache[fn] = value
TaskProviderReturns(t) ==
    /\ TaskAllBound(t)
    /\ TaskTop(t).fn # "handler"
    /\ LET fn == TaskTop(t).fn
           value == Produced(fn, Len(invocations) + 1)
           outer == SubSeq(tasks[t].frames, 1, Len(tasks[t].frames) - 1)
           waiting == TaskSignature(t, outer[Len(outer)].fn)[outer[Len(outer)].idx]
       IN  /\ invocations' = Append(invocations, [fn |-> fn, task |-> t])
           /\ tasks' = [tasks EXCEPT
                  ![t].exit_stack = IF fn \in Scoped THEN Append(@, value) ELSE @,
                  ![t].cache = (fn :> value) @@ @,
                  ![t].frames = [outer EXCEPT ![Len(outer)] =
                                    [@ EXCEPT !.kwargs = (waiting.name :> value) @@ @,
                                              !.idx = @ + 1]]]

TaskProviderRaises(t) ==
    /\ TaskAllBound(t)
    /\ TaskTop(t).fn # "handler"
    /\ invocations' = Append(invocations, [fn |-> TaskTop(t).fn, task |-> t])
    /\ tasks' = [tasks EXCEPT ![t].frames = <<>>, ![t].pending = Exc("ProviderError"),
                              ![t].pc = "exiting"]

\* await fn(**kwargs)
TaskInvokeHandler(t) ==
    /\ TaskAllBound(t)
    /\ TaskTop(t).fn = "handler"
    /\ tasks' = [tasks EXCEPT ![t].bound = TaskTop(t).kwargs, ![t].frames = <<>>,
                              ![t].pc = "running"]
    /\ UNCHANGED invocations

TaskHandlerReturns(t) ==
    /\ tasks[t].pc = "running"
    /\ \E rv \in {Ok(IntV(1)), Fail(NotFound)} :
        tasks' = [tasks EXCEPT ![t].retval = rv, ![t].pc = "exiting"]
    /\ UNCHANGED invocations

TaskHandlerRaises(t) ==
    /\ tasks[t].pc = "running"
    /\ tasks' = [tasks EXCEPT ![t].pending = Exc("ValueError"), ![t].pc = "exiting"]
    /\ UNCHANGED invocations

\* the task's exit stack unwinds, last entered first
TaskRelease(t) ==
    /\ tasks[t].pc = "exiting"
    /\ tasks[t].exit_stack # <<>>
    /\ LET stack == tasks[t].exit_stack IN
        tasks' = [tasks EXCEPT ![t].released = Append(@, stack[Len(stack)]),
                               ![t].exit_stack = SubSeq(stack, 1, Len(stack) - 1)]
    /\ UNCHANGED invocations

TaskExit(t) ==
    /\ tasks[t].pc = "exiting"
    /\ tasks[t].exit_stack = <<>>
    /\ tasks' = [tasks EXCEPT ![t].pc = "exited"]
    /\ UNCHANGED invocations

\* the handlers of two subscribers and the contexts run_callback hands them
TaskSigs ==
    {<<Param("msg", NoDep, Empty), Param("conn", "get_conn", Empty)>>,
     <<Param("msg", NoDep, Empty), Param("session", "get_session", Empty),
       Param("conn", "get_conn", Empty)>>,
     <<Param("conn", "get_conn", Empty), Param("limit", NoDep, IntV(10))>>,
     <<Param("user", "get_user", Empty)>>}

TaskContexts == {[msg |-> TheMsg], [msg |-> TheMsg, settings |-> IntV(0)]}

IdleTask(sig, ctx) ==
    [pc |-> "idle", sig |-> sig, context |-> ctx, frames |-> <<>>, cache |-> <<>>,
     exit_stack |-> <<>>, bound |-> <<>>, released |-> <<>>, retval |-> NotRun,
     pending |-> NoExc]

InitConcurrent ==
    /\ tasks \in [Tasks -> {IdleTask(sig, ctx) : sig \in TaskSigs, ctx \in TaskContexts}]
    /\ invocations = <<>>
    /\ IdleCombine
    /\ IdleCreate
    /\ IdleDeps
    /\ IdleDispatch
    /\ IdleMatch
    /\ IdleRegister
    /\ IdleEquality
    /\ IdleRequest
    /\ IdleScope
    /\ IdleMediator
    /\ IdleRepo
    /\ IdleToken

OutsideTasks ==
    UNCHANGED <<combineVars, createVars, depVars, dispatchVars, matchVars, registerVars,
                equalityVars, requestVars, scopeVars, mediatorVars, repoVars, tokenVars>>

NextConcurrent ==
    \/ (\E t \in Tasks : TaskStart(t)) /\ OutsideTasks
    \/ (\E t \in Tasks : TaskBindFromContext(t)) /\ OutsideTasks
    \/ (\E t \in Tasks : TaskResolveCached(t)) /\ OutsideTasks
    \/ (\E t \in Tasks : TaskEnterDependency(t)) /\ OutsideTasks
    \/ (\E t \in Tasks : TaskBindDefault(t)) /\ OutsideTasks
    \/ (\E t \in Tasks : TaskUnresolvable(t)) /\ OutsideTasks
    \/ (\E t \in Tasks : TaskProviderReturns(t)) /\ OutsideTasks
    \/ (\E t \in Tasks : TaskProviderRaises(t)) /\ OutsideTasks
    \/ (\E t \in Tasks : TaskInvokeHandler(t)) /\ OutsideTasks
    \/ (\E t \in Tasks : TaskHandlerReturns(t)) /\ OutsideTasks
    \/ (\E t \in Tasks : TaskHandlerRaises(t)) /\ OutsideTasks
    \/ (\E t \in Tasks : TaskRelease(t)) /\ OutsideTasks
    \/ (\E t \in Tasks : TaskExit(t)) /\ OutsideTasks

SpecConcurrent == InitConcurrent /\ [][NextConcurrent]_vars

(***************************************************************************)
(* C24.  The dependency cache belongs to exactly one call: when two        *)
(* deliveries are dispatched as interleaved tasks using the same provider, *)
(* each call invokes the provider itself and no call ever receives a value *)
(* (or scoped resource) produced for the other call.                       *)
(***************************************************************************)
\* the value was produced by an invocation task t made
OwnValue(t, v) ==
    v.kind = "dep" => /\ v.n \in 1..Len(invocations)
                      /\ invocations[v.n] = [fn |-> v.of, task |-> t]

C24_CachePerCall ==
    \A t \in DOMAIN tasks :
        /\ \A fn \in DOMAIN tasks[t].cache : OwnValue(t, tasks[t].cache[fn])
        /\ \A i \in 1..Len(tasks[t].frames) :
              \A name \in DOMAIN tasks[t].frames[i].kwargs :
                  OwnValue(t, tasks[t].frames[i].kwargs[name])
        /\ \A name \in DOMAIN tasks[t].bound : OwnValue(t, tasks[t].bound[name])
        /\ \A i \in 1..Len(tasks[t].exit_stack) : OwnValue(t, tasks[t].exit_stack[i])
        /\ \A i \in 1..Len(tasks[t].released) : OwnValue(t, tasks[t].released[i])

\* both handlers ran with a connection, the second task's provider invoked
\* while the first task's call was still open
C24_Witness ==
    /\ tasks # <<>>
    /\ \A t \in Tasks : "conn" \in DOMAIN tasks[t].bound
    /\ tasks[1].bound["conn"] # tasks[2].bound["conn"]
    /\ tasks[1].pc = "running"
    /\ tasks[2].pc = "running"
    /\ Cardinality({i \in 1..Len(invocations) : invocations[i].fn = "get_conn"}) = 2

(***************************************************************************)
(* C25.  The primitive type check of a field whose target type has no      *)
(* create accepts, for a boolean field, true/false and their string forms; *)
(* for a numeric field, a number or a numeric string (coerced to the       *)
(* numeric type); for a string field, a string or a number; every other    *)
(* raw value fails with InvalidField whose hints are {expected: the type's *)
(* name, received: the raw value}.                                         *)
(***************************************************************************)
\* what the claim has the check accept; in Python a bool is a number, and
\* 1 and 0 equal True and False
Accepted(c, x) ==
    CASE c = "bool" ->
            \/ x.kind = "bool"
            \/ x.kind = "int" /\ x.n \in {0, 1}
            \/ x.kind = "str" /\ x.s \in {<<"T", "r", "u", "e">>, <<"F", "a", "l", "s", "e">>}
      [] c \in {"int", "float"} -> x.kind \in {"int", "bool"} \/ (x.kind = "str" /\ IsDigits(x.s))
      [] c = "str" -> x.kind \in {"str", "int", "bool"}
      [] OTHER -> FALSE

KindOf(c) == c      \* the value kind of a primitive type carries the type's name

PrimitiveField(i) ==
    /\ HasChecker(VisitedItem(i).cls)
    /\ ~VisitedItem(i).is_list
    /\ RawSubValue(i) # Null

C25_PrimitiveTypeCheck ==
    \A i \in 1..Len(field_results) :
        PrimitiveField(i) =>
            LET item == VisitedItem(i)
                res == field_results[i].res
            IN  IF Accepted(item.cls.c, RawSubValue(i))
                THEN res.tag = "ok" /\ res.value.kind = KindOf(item.cls.c)
                ELSE res = Fail(InvalidField(item.key,
                                             ExpectedReceived(item.cls.c, RawSubValue(i)), <<>>))

(***************************************************************************)
(* C30.  For a boolean field, the value placed in the constructed object   *)
(* is the boolean the accepted raw input denotes: true for true or "True", *)
(* false for false or "False".                                             *)
(***************************************************************************)
Denoted(x) ==
    CASE x.kind = "bool" -> x.b
      [] x.kind = "int" -> x.n = 1
      [] OTHER -> x.s = <<"T", "r", "u", "e">>

C30_BooleanDenoted ==
    \A i \in 1..Len(field_results) :
        (/\ PrimitiveField(i)
         /\ VisitedItem(i).cls.c = "bool"
         /\ Accepted("bool", RawSubValue(i))) =>
            field_results[i].res = Ok(BoolV(Denoted(RawSubValue(i))))


(***************************************************************************)
(* utils/functional.py: to_context_manager, and the part of resolve that   *)
(* enters an async generator provider through the exit stack.              *)
(*                                                                         *)
(* A generator is [shape, state, yielded, cleanups].  Its shape is how the code     *)
(* after its single yield is written:                                      *)
(*   "plain"    yield x; cleanup()                                         *)
(*   "finally"  try: yield x  finally: cleanup()                           *)
(*   "except"   try: yield x  except Exception: cleanup(); raise           *)
(* Its state is "unstarted", "suspended" (at the yield) or "closed";       *)
(* yielded tells that __anext__ gave its value; cleanups counts the runs   *)
(* of its cleanup code.                                                    *)
(***************************************************************************)
GeneratorShapes == {"plain", "finally", "except"}

NewGenerator(shape) ==
    [shape |-> shape, state |-> "unstarted", yielded |-> FALSE, cleanups |-> 0]

\* gen.aclose() on a generator suspended at its yield: GeneratorExit is
\* thrown in at the yield.  A finally clause around the yield runs; code
\* that merely follows the yield, or an `except Exception` clause, does not
aclose(gen) ==
    IF gen.state # "suspended" THEN [gen EXCEPT !.state = "closed"]
    ELSE [gen EXCEPT !.state = "closed",
                     !.cleanups = IF gen.shape = "finally" THEN @ + 1 ELSE @]

ScopeInputs ==
    {<<NewGenerator(a)>> : a \in GeneratorShapes}
        \cup {<<NewGenerator(a), NewGenerator(b)>> : a, b \in GeneratorShapes}

InitScope ==
    /\ scope_pc = "resolving"
    /\ gens \in ScopeInputs
    /\ scope_stack = <<>>
    /\ scope_exc = NoExc
    /\ IdleCombine
    /\ IdleCreate
    /\ IdleDeps
    /\ IdleDispatch
    /\ IdleMatch
    /\ IdleRegister
    /\ IdleEquality
    /\ IdleRequest
    /\ IdleConcurrent
    /\ IdleMediator
    /\ IdleRepo
    /\ IdleToken

NextUnstarted == CHOOSE i \in 1..Len(gens) : gens[i].state = "unstarted" /\
                    \A j \in 1..(i - 1) : gens[j].state # "unstarted"

\* resolve: result = fn(**kwargs) is an async generator;
\* enter_async_context(to_context_manager(result)) runs it to its yield
EnterGenerator ==
    /\ scope_pc = "resolving"
    /\ \E i \in 1..Len(gens) : gens[i].state = "unstarted"
    /\ gens' = [gens EXCEPT ![NextUnstarted].state = "suspended",
                             ![NextUnstarted].yielded = TRUE]
    /\ scope_stack' = Append(scope_stack, NextUnstarted)
    /\ UNCHANGED <<scope_pc, scope_exc>>

\* gen.__anext__() raises before the yield: the finally of
\* to_context_manager closes the finished generator, the scope unwinds
SetupRaises ==
    /\ scope_pc = "resolving"
    /\ \E i \in 1..Len(gens) : gens[i].state = "unstarted"
    /\ gens' = [gens EXCEPT ![NextUnstarted] = aclose(@)]
    /\ scope_exc' = Exc("ProviderError")
    /\ scope_pc' = "exiting"
    /\ UNCHANGED scope_stack

\* every provider is resolved: the handler runs inside the scope
ScopeBody ==
    /\ scope_pc = "resolving"
    /\ \A i \in 1..Len(gens) : gens[i].state # "unstarted"
    /\ scope_pc' = "running"
    /\ UNCHANGED <<gens, scope_stack, scope_exc>>

BodyReturns ==
    /\ scope_pc = "running"
    /\ scope_pc' = "exiting"
    /\ UNCHANGED <<gens, scope_stack, scope_exc>>

BodyRaises ==
    /\ scope_pc = "running"
    /\ scope_exc' = Exc("ValueError")
    /\ scope_pc' = "exiting"
    /\ UNCHANGED <<gens, scope_stack>>

\* the exit stack exits the context manager entered last: whether the body
\* returned or raised, to_context_manager reaches its finally and awaits
\* gen.aclose(); cleanup code that runs may itself raise
ExitGenerator ==
    /\ scope_pc = "exiting"
    /\ scope_stack # <<>>
    /\ LET i == scope_stack[Len(scope_stack)]
           closed == aclose(gens[i])
       IN  /\ gens' = [gens EXCEPT ![i] = closed]
           /\ \E raises \in BOOLEAN :
                scope_exc' = IF raises /\ closed.cleanups > gens[i].cleanups
                             THEN Exc("CleanupError") ELSE scope_exc
    /\ scope_stack' = SubSeq(scope_stack, 1, Len(scope_stack) - 1)
    /\ UNCHANGED scope_pc

LeaveScope ==
    /\ scope_pc = "exiting"
    /\ scope_stack = <<>>
    /\ scope_pc' = "exited"
    /\ UNCHANGED <<gens, scope_stack, scope_exc>>

OutsideScope ==
    UNCHANGED <<combineVars, createVars, depVars, dispatchVars, matchVars, registerVars,
                equalityVars, requestVars, concurrentVars, mediatorVars, repoVars,
                tokenVars>>

NextScope ==
    \/ EnterGenerator /\ OutsideScope
    \/ SetupRaises /\ OutsideScope
    \/ ScopeBody /\ OutsideScope
    \/ BodyReturns /\ OutsideScope
    \/ BodyRaises /\ OutsideScope
    \/ ExitGenerator /\ OutsideScope
    \/ LeaveScope /\ OutsideScope

SpecScope == InitScope /\ [][NextScope]_vars

(***************************************************************************)
(* C26.  When the scope has been left, the cleanup code of every async     *)
(* generator provider that reached its yield has run exactly once,         *)
(* whatever the shape of the code after the yield (inside a try/finally or *)
(* not), and that of a provider that never reached its yield has not run.  *)
(***************************************************************************)
C26_CleanupRunsOnce ==
    scope_pc = "exited" =>
        \A i \in 1..Len(gens) :
            gens[i].cleanups = IF gens[i].yielded THEN 1 ELSE 0


(***************************************************************************)
(* nats.py: NatsMediator.connect, subscribe and unsubscribe.               *)
(*                                                                         *)
(* A transport subscription is a handle [n, via], numbered in creation     *)
(* order; a service is the sequence of its subscribers, each on the core   *)
(* transport or on a stream.  Creating or removing a transport subscription may      *)
(* raise: fail_at is the position of the one that does, 0 for none.        *)
(***************************************************************************)
MediatorServices ==
    UNION {[1..n -> {"core", "stream"}] : n \in 1..MaxSubscribers}

\* the handles nc.subscribe / js.subscribe gave for the first n subscribers
NewHandles(service, n) == [i \in 1..n |-> [n |-> nc_created + i, via |-> service[i]]]

Handles(subs) == {subs[i] : i \in 1..Len(subs)}

\* NatsMediator.connect
Connect ==
    /\ ~nc_connected
    /\ nc_connected' = TRUE
    /\ med_outcome' = Returned
    /\ UNCHANGED <<nc_active, nc_created, subscriptions, sub_ids>>

\* subscribe(service) before the client is connected
SubscribeNotConnected ==
    /\ ~nc_connected
    /\ med_outcome' = InternalError(NoHints)
    /\ UNCHANGED <<nc_connected, nc_active, nc_created, subscriptions, sub_ids>>

\* subscribe(service): the transport subscriptions are collected in a local
\* list, stored under the new id after the loop
Subscribe(service, fail_at) ==
    /\ nc_connected
    /\ sub_ids < MaxServices
    /\ sub_ids' = sub_ids + 1
    /\ IF fail_at = 0
       THEN /\ nc_active' = nc_active \cup Handles(NewHandles(service, Len(service)))
            /\ nc_created' = nc_created + Len(service)
            /\ subscriptions' = (sub_ids' :> NewHandles(service, Len(service))) @@ subscriptions
            /\ med_outcome' = [kind |-> "id", id |-> sub_ids']
       ELSE /\ nc_active' = nc_active \cup Handles(NewHandles(service, fail_at - 1))
            /\ nc_created' = nc_created + (fail_at - 1)
            /\ subscriptions' = subscriptions
            /\ med_outcome' = Exc("TransportError")
    /\ UNCHANGED nc_connected

\* unsubscribe(id): every recorded subscription is unsubscribed, then the
\* entry is deleted; anything raised on the way, the KeyError of an unknown
\* id included, leaves as InternalError
Unsubscribe(id, fail_at) ==
    LET subs == IF id \in DOMAIN subscriptions THEN subscriptions[id] ELSE <<>>
    IN  /\ fail_at <= Len(subs)
        /\ IF fail_at # 0
           THEN /\ nc_active' = nc_active \ Handles(SubSeq(subs, 1, fail_at - 1))
                /\ subscriptions' = subscriptions
                /\ med_outcome' = InternalError(NoHints)
           ELSE /\ nc_active' = nc_active \ Handles(subs)
                /\ subscriptions' =
                        [k \in DOMAIN subscriptions \ {id} |-> subscriptions[k]]
                /\ med_outcome' = IF id \in DOMAIN subscriptions THEN Returned
                                  ELSE InternalError(NoHints)
        /\ UNCHANGED <<nc_connected, nc_created, sub_ids>>

InitMediator ==
    /\ nc_connected = FALSE
    /\ nc_active = {}
    /\ nc_created = 0
    /\ subscriptions = <<>>
    /\ sub_ids = 0
    /\ med_outcome = [kind |-> "none"]
    /\ IdleCombine
    /\ IdleCreate
    /\ IdleDeps
    /\ IdleDispatch
    /\ IdleMatch
    /\ IdleRegister
    /\ IdleEquality
    /\ IdleRequest
    /\ IdleConcurrent
    /\ IdleScope
    /\ IdleRepo
    /\ IdleToken

OutsideMediator ==
    UNCHANGED <<combineVars, createVars, depVars, dispatchVars, matchVars, registerVars,
                equalityVars, requestVars, concurrentVars, scopeVars, repoVars,
                tokenVars>>

NextMediator ==
    \/ Connect /\ OutsideMediator
    \/ SubscribeNotConnected /\ OutsideMediator
    \/ (\E service \in MediatorServices : \E fail_at \in 0..Len(service) :
            Subscribe(service, fail_at)) /\ OutsideMediator
    \/ (\E id \in 1..MaxServices : \E fail_at \in 0..MaxSubscribers :
            Unsubscribe(id, fail_at)) /\ OutsideMediator

SpecMediator == InitMediator /\ [][NextMediator]_vars

(***************************************************************************)
(* C27.  After any sequence of subscribe and unsubscribe calls, every      *)
(* transport subscription that was created and has not been unsubscribed   *)
(* is recorded under some id of the mediator's subscriptions map.          *)
(***************************************************************************)
Recorded(h) == \E id \in DOMAIN subscriptions : h \in Handles(subscriptions[id])

C27_ActiveSubscriptionsTracked == \A h \in nc_active : Recorded(h)


(***************************************************************************)
(* infras/postgresql.py: PostgresRepo.get and save; domain/objects.py:     *)
(* EntityState and its evolve.                                             *)
(*                                                                         *)
(* The table maps an id to the version of the row stored for it.  A task   *)
(* holds one entity state [id, version].  Each statement handed to         *)
(* conn.execute is one atomic step of the database.                        *)
(***************************************************************************)
Conflict == Error("conflict", NoField, <<>>, NoHints, NoHints)

NoSave == [kind |-> "none"]

\* EntityState(...): a new id, version PositiveInt.zero()
NewEntity(t) ==
    /\ held[t] = Null
    /\ t \notin DOMAIN pg_table
    /\ held' = [held EXCEPT ![t] = [id |-> t, version |-> 0]]
    /\ repo_last' = [task |-> t, op |-> "new"]
    /\ UNCHANGED <<pg_table, save_outcome>>

\* PostgresRepo.get(criteria) finding the row of id
RepoGet(t, id) ==
    /\ id \in DOMAIN pg_table
    /\ held' = [held EXCEPT ![t] = [id |-> id, version |-> pg_table[id]]]
    /\ repo_last' = [task |-> t, op |-> "get"]
    /\ UNCHANGED <<pg_table, save_outcome>>

\* EntityState.evolve(**kwargs) without a version: version.increment()
EvolveState(t) ==
    /\ held[t] # Null
    /\ held[t].version < MaxVersion
    /\ held' = [held EXCEPT ![t].version = @ + 1]
    /\ repo_last' = [task |-> t, op |-> "evolve"]
    /\ UNCHANGED <<pg_table, save_outcome>>

\* INSERT INTO table(...) VALUES(...): a row of the same id is a unique
\* violation
Insert(state) ==
    IF state.id \in DOMAIN pg_table THEN [rows |-> pg_table, exc |-> Exc("UniqueViolationError")]
    ELSE [rows |-> (state.id :> state.version) @@ pg_table, exc |-> NoExc]

\* UPDATE table SET ... WHERE id = $1 AND version = $2, with $2 the
\* version before: it changes the matching row, and completes with
\* "UPDATE 0" when there is none
Update(state) ==
    IF state.id \in DOMAIN pg_table /\ pg_table[state.id] = state.version - 1
    THEN [rows |-> [pg_table EXCEPT ![state.id] = state.version], exc |-> NoExc]
    ELSE [rows |-> pg_table, exc |-> NoExc]

\* PostgresRepo.save(state); the connection may fail on any statement
RepoSave(t, broken) ==
    /\ held[t] # Null
    /\ LET done == IF broken THEN [rows |-> pg_table, exc |-> Exc("ConnectionError")]
                   ELSE IF held[t].version = 0 THEN Insert(held[t])
                   ELSE Update(held[t])
       IN  /\ pg_table' = done.rows
           /\ save_outcome' =
                [save_outcome EXCEPT ![t] =
                    IF done.exc = NoExc THEN Returned
                    ELSE IF done.exc = Exc("UniqueViolationError") THEN Conflict
                    ELSE InternalError(NoHints)]
    /\ repo_last' = [task |-> t, op |-> "save"]
    /\ UNCHANGED held

InitRepo ==
    /\ pg_table = <<>>
    /\ held = [t \in Tasks |-> Null]
    /\ save_outcome = [t \in Tasks |-> NoSave]
    /\ repo_last = [task |-> 0, op |-> "none"]
    /\ IdleCombine
    /\ IdleCreate
    /\ IdleDeps
    /\ IdleDispatch
    /\ IdleMatch
    /\ IdleRegister
    /\ IdleEquality
    /\ IdleRequest
    /\ IdleConcurrent
    /\ IdleScope
    /\ IdleMediator
    /\ IdleToken

OutsideRepo ==
    UNCHANGED <<combineVars, createVars, depVars, dispatchVars, matchVars, registerVars,
                equalityVars, requestVars, concurrentVars, scopeVars, mediatorVars,
                tokenVars>>

NextRepo ==
    \/ (\E t \in Tasks : NewEntity(t)) /\ OutsideRepo
    \/ (\E t \in Tasks : \E id \in Tasks : RepoGet(t, id)) /\ OutsideRepo
    \/ (\E t \in Tasks : EvolveState(t)) /\ OutsideRepo
    \/ (\E t \in Tasks : \E broken \in BOOLEAN : RepoSave(t, broken)) /\ OutsideRepo

SpecRepo == InitRepo /\ [][NextRepo]_vars

(***************************************************************************)
(* C28.  A save that returned without error has written the state: right   *)
(* after it the table holds the row of state.id at the state's version.    *)
(* So of two tasks that evolved the same stored version only one save may  *)
(* return, and a save of an entity evolved before its first save may not.  *)
(***************************************************************************)
JustSaved(t) == repo_last = [task |-> t, op |-> "save"] /\ save_outcome[t] = Returned

C28_SaveReturnsOnlyIfWritten ==
    \A t \in Tasks :
        JustSaved(t) =>
            /\ held[t].id \in DOMAIN pg_table
            /\ pg_table[held[t].id] = held[t].version


(***************************************************************************)
(* application/tokens.py: JwtToken.new and JwtToken.decode (helpers.py     *)
(* holds the same two functions as create_jwt_token and decode_jwt_token). *)
(*                                                                         *)
(* A token is [key, exp, iss, claims]: the key it was signed with, its     *)
(* expiry minute, its issuer, and its claims kind and sub, where an absent *)
(* claim is not in the record's domain.                                    *)
(***************************************************************************)
ConfigKey == "JWT_HASH_SECRET"
ConfigIssuer == "JWT_TOKEN_ISSUER"

TokenKinds == {"access", "refresh"}
TokenSubjects == {"", "u1"}

\* JwtToken.new(sub, kind, duration_min)
NewToken(sub, kind, duration_min) ==
    [key |-> ConfigKey, exp |-> jwt_now + duration_min, iss |-> ConfigIssuer,
     claims |-> [kind |-> kind, sub |-> sub]]

\* tokens that were not made by new: another key, another issuer, or
\* without a kind claim
ForeignTokens ==
    {[key |-> k, exp |-> MaxClock, iss |-> i, claims |-> c] :
        k \in {ConfigKey, "other key"}, i \in {ConfigIssuer, "other issuer"},
        c \in {[kind |-> "access", sub |-> "u1"], [sub |-> "u1"]}}
        \ {[key |-> ConfigKey, exp |-> MaxClock, iss |-> ConfigIssuer,
            claims |-> [kind |-> "access", sub |-> "u1"]]}

\* payload.get(name, "")
Claim(payload, name) == IF name \in DOMAIN payload THEN payload[name] ELSE ""

DecodedJwtToken(expired, invalid, sub, kind) ==
    [expired |-> expired, invalid |-> invalid, sub |-> sub, kind |-> kind]

\* jwt.decode(jwt, key, issuer, audience, algorithms): the signature, then
\* the expiry, then the issuer
jwt_decode(token) ==
    IF token.key # ConfigKey THEN Raised(Exc("InvalidSignatureError"))
    ELSE IF token.exp <= jwt_now THEN Raised(Exc("ExpiredSignatureError"))
    ELSE IF token.iss # ConfigIssuer THEN Raised(Exc("InvalidIssuerError"))
    ELSE Ok(token.claims)

\* JwtToken.decode(token, kind): the name kind is bound anew to the
\* payload's kind before the comparison, which then compares it to itself
decode(token, kind) ==
    LET payload == jwt_decode(token)
    IN  IF payload.tag = "raised"
        THEN IF payload.exc = Exc("ExpiredSignatureError")
             THEN DecodedJwtToken(TRUE, FALSE, Null, Null)
             ELSE DecodedJwtToken(FALSE, TRUE, Null, Null)
        ELSE LET kind_ == Claim(payload.value, "kind")
                 sub == Claim(payload.value, "sub")
             IN  IF kind_ # kind_ \/ sub = ""
                 THEN DecodedJwtToken(FALSE, TRUE, Null, Null)
                 ELSE DecodedJwtToken(FALSE, FALSE, sub, kind_)

IssueToken ==
    /\ \E sub \in TokenSubjects, kind \in TokenKinds, duration_min \in 1..MaxClock :
            jwt_token' = NewToken(sub, kind, duration_min)
    /\ decoded' = NotRun
    /\ UNCHANGED <<jwt_now, jwt_kind>>

PresentForeignToken ==
    /\ jwt_token' \in ForeignTokens
    /\ decoded' = NotRun
    /\ UNCHANGED <<jwt_now, jwt_kind>>

TimePasses ==
    /\ jwt_now < MaxClock
    /\ jwt_now' = jwt_now + 1
    /\ UNCHANGED <<jwt_token, jwt_kind, decoded>>

DecodeToken ==
    /\ jwt_token # Null
    /\ \E kind \in TokenKinds :
            /\ jwt_kind' = kind
            /\ decoded' = decode(jwt_token, kind)
    /\ UNCHANGED <<jwt_now, jwt_token>>

InitToken ==
    /\ jwt_now = 0
    /\ jwt_token = Null
    /\ jwt_kind = ""
    /\ decoded = NotRun
    /\ IdleCombine
    /\ IdleCreate
    /\ IdleDeps
    /\ IdleDispatch
    /\ IdleMatch
    /\ IdleRegister
    /\ IdleEquality
    /\ IdleRequest
    /\ IdleConcurrent
    /\ IdleScope
    /\ IdleMediator
    /\ IdleRepo

OutsideToken ==
    UNCHANGED <<combineVars, createVars, depVars, dispatchVars, matchVars, registerVars,
                equalityVars, requestVars, concurrentVars, scopeVars, mediatorVars,
                repoVars>>

NextToken ==
    \/ IssueToken /\ OutsideToken
    \/ PresentForeignToken /\ OutsideToken
    \/ TimePasses /\ OutsideToken
    \/ DecodeToken /\ OutsideToken

SpecToken == InitToken /\ [][NextToken]_vars

(***************************************************************************)
(* C29.  decode(token, kind) returns a DecodedJwtToken with neither        *)
(* invalid nor expired set only if the token's kind claim equals the kind  *)
(* handed to decode.                                                       *)
(***************************************************************************)
Accepted_token == decoded # NotRun /\ ~decoded.invalid /\ ~decoded.expired

C29_DecodeBoundToKind ==
    Accepted_token => Claim(jwt_token.claims, "kind") = jwt_kind

====
